---- MODULE Spec2Model ----
(***************************************************************************)
(* Model of the OCR -> PDF pipeline of ocr_llm_starter:                    *)
(*   - POST /api/ocr          (src/app/api/ocr/route.ts)                   *)
(*   - temp file utilities    (lib/utils/server: cleanupTempFiles, ...)    *)
(*   - POST /api/pdf/generate (src/app/api/pdf/generate/route.ts)          *)
(*   - createMultiPagePdf     (src/lib/pdf/jspdf.ts)                       *)
(*   - generatePdf            (src/app/page.tsx)                           *)
(*                                                                         *)
(* Strings that the code inspects with includes()/startsWith()/split() are *)
(* sequences of tokens; a token never contains another token as substring, *)
(* so "s.includes(t)" is "t occurs in the sequence s".                     *)
(***************************************************************************)
EXTENDS Integers, Sequences, FiniteSets, TLC

\* ------------------------------------------------------------------ bounds
MaxFiles == 3
MaxResults == 2
\* At most this many file-system faults (rejected writeFile, unlink, readdir)
\* are injected in one run.
MaxFaults == 2

Reqs == {1, 2}
\* Stand-ins for uuidv4() values: the one a crashed request used, and the first
\* one this run draws. uuid = 0 marks a name without a UUID-v4 prefix.
OrphanUuid == 90
FirstUuid == 1
NoFile == [uuid |-> 0, base |-> <<"-">>]
NoError == [isError |-> FALSE, message |-> <<"-">>]

\* File names as path segments (split on / or \).
FileNames == {<<"ok1.jpg">>, <<"bad.jpg">>, <<"dir", "third.jpg">>}

\* Things found in the temp directory before the request starts: a file left
\* behind by a crashed request and a file that does not belong to the app.
OrphanFile == [uuid |-> OrphanUuid, base |-> <<"old.jpg">>]
ForeignFile == [uuid |-> 0, base |-> <<"notes.txt">>]

\* What genAI.models.generateContent resolves to: response.text may be a
\* string, the empty string, or absent.
ApiResponses == {[hasText |-> TRUE, text |-> "hello"],
                 [hasText |-> TRUE, text |-> ""],
                 [hasText |-> FALSE, text |-> ""]}

\* What it (or initGeminiApi, or writeFile) rejects with.
ApiErrors == {[isError |-> TRUE, message |-> <<"API key", " not valid">>],
              [isError |-> TRUE, message |-> <<"quota", " exceeded">>],
              [isError |-> TRUE, message |-> <<"unsupported ", "image">>],
              [isError |-> TRUE, message |-> <<"fetch failed">>],
              [isError |-> FALSE, message |-> <<>>]}
WriteError == [isError |-> TRUE, message |-> <<"ENOSPC">>]

VARIABLES
  tmpdir,         \* set of paths present in os.tmpdir()
  nextUuid,       \* source of uuidv4() values
  pc,             \* per request: position in POST / processImagesSequentially
  contentTypeOk,  \* per request: content-type includes multipart/form-data
  parts,          \* per request: formData.getAll('files')
  validFiles,     \* per request
  invalidFiles,   \* per request
  idx,            \* per request: loop position in validFiles (1-based)
  tempFilePath,   \* per request: processImageWithGeminiApi's tempFilePath
  pending,        \* per request: how the try block of the current image ended
  results,        \* per request: processImagesSequentially's results
  tempFilePaths,  \* per request: processImagesSequentially's tempFilePaths
  leftoverFiles,  \* per request: cleanupLeftoverTempFiles's leftoverFiles
  sweepPos,       \* per request: position in leftoverFiles
  deletedCount,   \* per request: cleanupLeftoverTempFiles's return value
  caught,         \* per request: error held by the outer catch, or NoError
  response,       \* per request: the HTTP response
  trace,          \* per request: history of I/O steps (observation only)
  faults,         \* number of file-system faults injected so far
  ppc,            \* position in the PDF flow
  via,            \* who started the PDF flow: "client", "route" or "function"
  ocrState,       \* the OCR outcomes held by the caller (page.tsx ocrResults)
  body,           \* ocrResults of the /api/pdf/generate request, when it is an array
  bodyKind,       \* what the request's ocrResults field is: "array" or one of BodyKinds
  pairs,          \* imageTextPairs handed to createMultiPagePdf
  pairSrc,        \* for each pair, the index in body it was made from (observation only)
  pageIndex,      \* forEach index in createMultiPagePdf (0-based)
  doc,            \* pages of the jsPDF document
  imageErrors,    \* createMultiPagePdf's imageErrors
  pdfThrown,      \* what createMultiPagePdf threw, or NoPdfError
  pdfResponse,    \* the /api/pdf/generate response, or what the function returned
  fileList,       \* handleFileSelect: event.target.files
  selPc,          \* handleFileSelect: position
  selIndex,       \* processFilesWithErrorTracking's loop variable i (0-based)
  selResult,      \* processFilesWithErrorTracking's result
  totalFiles,     \* its totalFiles
  extensionFailures,    \* handleFileSelect's counters
  magicNumberFailures,
  verdicts,       \* for each file examined, why it was skipped or "accepted" (observation only)
  selToast,       \* the toast shown, or NoToast
  selected,       \* what onFolderSelect received
  clsPc,          \* error handling of one image: position
  clsError,       \* the value caught at route.ts 120
  clsDetails,     \* errorDetails (route.ts 124)
  clsThrown,      \* the error thrown at route.ts 133
  clsCritical,    \* the condition at route.ts 172
  cuPc,           \* cleanupTempFiles called twice in a row: position
  cuDir,          \* the files on disk
  cuPaths,        \* filePaths
  cuPos,          \* loop position in filePaths (1-based)
  cuCall,         \* 1 for the first call, 2 for the second
  cuLog,          \* per call, the outcome for each path attempted (observation only)
  successCount,   \* cleanupTempFiles's counters
  failureCount,
  cuDirAfterFirst, \* the files on disk when the first call returned (observation only)
  imageFiles,     \* page.tsx: the selected images (state imageFiles)
  cliPc,          \* position in processImages
  cliIdx,         \* loop position in imageFiles (1-based)
  cliStep,        \* inside fileToBase64: "read" (FileReader) or "decode" (Image)
  imageBase64Map, \* the Map of page.tsx 286: key -> base64 of the file at that index
  apiData,        \* data.results of the /api/ocr response
  isProcessing,   \* state isProcessing
  ocrResults,     \* state ocrResults (NoResults for null)
  ocrError        \* state ocrError ("-" for null)

ocrVars == <<tmpdir, nextUuid, pc, contentTypeOk, parts, validFiles,
             invalidFiles, idx, tempFilePath, pending, results, tempFilePaths,
             leftoverFiles, sweepPos, deletedCount, caught, response, trace,
             faults>>

pdfVars == <<ppc, via, ocrState, body, bodyKind, pairs, pairSrc, pageIndex, doc, imageErrors,
             pdfThrown, pdfResponse>>

selVars == <<fileList, selPc, selIndex, selResult, totalFiles, extensionFailures,
             magicNumberFailures, verdicts, selToast, selected>>

clsVars == <<clsPc, clsError, clsDetails, clsThrown, clsCritical>>

cuVars == <<cuPc, cuDir, cuPaths, cuPos, cuCall, cuLog, successCount, failureCount,
            cuDirAfterFirst>>

cliVars == <<imageFiles, cliPc, cliIdx, cliStep, imageBase64Map, apiData, isProcessing,
             ocrResults, ocrError>>

\* What the actions of one part leave alone: the other parts.
exceptOcr == <<pdfVars, selVars, clsVars, cuVars, cliVars>>
exceptPdf == <<ocrVars, selVars, clsVars, cuVars, cliVars>>
exceptSel == <<ocrVars, pdfVars, clsVars, cuVars, cliVars>>
exceptCls == <<ocrVars, pdfVars, selVars, cuVars, cliVars>>
exceptCu == <<ocrVars, pdfVars, selVars, clsVars, cliVars>>
exceptCli == <<ocrVars, pdfVars, selVars, clsVars, cuVars>>

vars == <<ocrVars, pdfVars, selVars, clsVars, cuVars, cliVars>>

\* ------------------------------------------------------------- pure helpers
includes(msg, tok) == \E i \in 1..Len(msg) : msg[i] = tok

\* file.name.split(/[\/\\]/).pop() || file.name
extractFilename(name) ==
  IF Len(name) > 0 /\ name[Len(name)] # "" THEN <<name[Len(name)]>> ELSE name

\* Mutant: the temp file is named after the upload alone, every name gets
\* the same prefix.
tempFileName_noUuid(uuid, file) == [uuid |-> FirstUuid, base |-> extractFilename(file)]

\* route.ts 82-83: join(tmpdir(), `${uuidv4()}-${fileName}`); uuid is the
\* value uuidv4() returned. Two calls of uuidv4() are taken to return
\* different values (nextUuid below).
tempFileName(uuid, file) == [uuid |-> uuid, base |-> extractFilename(file)]

\* route.ts 13-19
OcrErrorTypes == {"API_KEY_INVALID", "RATE_LIMIT_EXCEEDED", "INVALID_IMAGE_FORMAT",
                  "PROCESSING_ERROR", "UNKNOWN_ERROR"}

\* Mutant: the image / format test comes first.
determineErrorType_imageFirst(error) ==
  LET errorMessage == IF error.isError THEN error.message ELSE <<"Unknown error">>
  IN IF includes(errorMessage, "format") \/ includes(errorMessage, "image")
       THEN [type |-> "INVALID_IMAGE_FORMAT",
             message |-> <<"The provided ", "image", " ", "format",
                           " is not supported by the API.">>]
     ELSE IF includes(errorMessage, "API key")
       THEN [type |-> "API_KEY_INVALID",
             message |-> <<"Invalid ", "API key", ". Please check your Gemini ",
                           "API key", " configuration.">>]
     ELSE IF includes(errorMessage, "quota") \/ includes(errorMessage, "rate limit")
       THEN [type |-> "RATE_LIMIT_EXCEEDED",
             message |-> <<"API ", "rate limit", " exceeded. Please try again later.">>]
     ELSE [type |-> "UNKNOWN_ERROR",
           message |-> <<"An unexpected error occurred: ">> \o errorMessage]

\* route.ts 34-62
determineErrorType(error) ==
  LET errorMessage == IF error.isError THEN error.message ELSE <<"Unknown error">>
  IN IF includes(errorMessage, "API key")
       THEN [type |-> "API_KEY_INVALID",
             message |-> <<"Invalid ", "API key", ". Please check your Gemini ",
                           "API key", " configuration.">>]
     ELSE IF includes(errorMessage, "quota") \/ includes(errorMessage, "rate limit")
       THEN [type |-> "RATE_LIMIT_EXCEEDED",
             message |-> <<"API ", "rate limit", " exceeded. Please try again later.">>]
     ELSE IF includes(errorMessage, "format") \/ includes(errorMessage, "image")
       THEN [type |-> "INVALID_IMAGE_FORMAT",
             message |-> <<"The provided ", "image", " ", "format",
                           " is not supported by the API.">>]
     ELSE [type |-> "UNKNOWN_ERROR",
           message |-> <<"An unexpected error occurred: ">> \o errorMessage]

\* Mutant: the "rate limit" test is missing.
isCriticalError_noRateLimit(error) ==
  \/ includes(error.message, "API key")
  \/ includes(error.message, "quota")

\* route.ts 67-74
isCriticalError(error) ==
  \/ includes(error.message, "API key")
  \/ includes(error.message, "rate limit")
  \/ includes(error.message, "quota")

\* throw new Error(`${errorDetails.type} : ${errorDetails.message}`)
rethrown(error) ==
  LET d == determineErrorType(error)
  IN [isError |-> TRUE, message |-> <<d.type, " : ">> \o d.message]

\* ------------------------------------------------- lib/utils/server helpers
\* One iteration of cleanupTempFiles's loop: existsSync, unlink, catch.
\* unlinkOk is whether fs.promises.unlink resolves.
unlinkResult(dir, path, unlinkOk) ==
  IF path \in dir THEN (IF unlinkOk THEN "deleted" ELSE "failed") ELSE "missing"

\* Mutant: no try/catch around the unlink.
catchesUnlinkError_no == FALSE

\* part_002 60 / 68-74: a rejected unlink is caught, logged and counted.
catchesUnlinkError == TRUE

\* Mutant: the unlink is reported but its effect is lost.
cleanupTempFile_keeps(dir, path, unlinkOk) == dir

cleanupTempFile(dir, path, unlinkOk) ==
  IF unlinkResult(dir, path, unlinkOk) = "deleted" THEN dir \ {path} ELSE dir

\* /^[0-9a-f]{8}-...-4...-[89ab]...-[0-9a-f]{12}-/i.test(file)
matchesUuidPattern(path) == path.uuid # 0

\* readdir order: ascending uuid (the order does not matter to any caller).
RECURSIVE listing(_)
listing(S) ==
  IF S = {} THEN <<>>
  ELSE LET p == CHOOSE q \in S : \A o \in S : q.uuid <= o.uuid
       IN <<p>> \o listing(S \ {p})

\* Mutant: no try/catch around readdir.
scanForLeftoverTempFiles_nocatch(dir, readdirOk) ==
  [threw |-> ~readdirOk,
   files |-> IF readdirOk THEN listing({p \in dir : matchesUuidPattern(p)}) ELSE <<>>]

\* readdirOk is whether fs.promises.readdir resolves. The catch returns [].
scanForLeftoverTempFiles(dir, readdirOk) ==
  IF readdirOk
    THEN [threw |-> FALSE, files |-> listing({p \in dir : matchesUuidPattern(p)})]
    ELSE [threw |-> FALSE, files |-> <<>>]

verifyTempFilesCleanup(dir, paths) ==
  \A i \in 1..Len(paths) : paths[i] \notin dir

\* --------------------------------------------------- OcrResult construction
\* Mutant: "text: text || undefined", an empty text is dropped from the record.
successResult_dropsEmpty(file, text) ==
  IF text = "" THEN [fileName |-> file, success |-> TRUE]
  ELSE [fileName |-> file, text |-> text, success |-> TRUE]

successResult(file, text) == [fileName |-> file, text |-> text, success |-> TRUE]
failureResult(file, errorMessage) ==
  [fileName |-> file, error |-> errorMessage, success |-> FALSE]
invalidResult == [fileName |-> <<"unknown">>, error |-> <<"Invalid file">>, success |-> FALSE]

\* return response.text || ""
responseText(resp) == IF resp.hasText /\ resp.text # "" THEN resp.text ELSE ""

\* Mutant: unshift instead of push.
pushResult_unshift(list, res) == <<res>> \o list

\* results.push(...)
pushResult(list, res) == Append(list, res)

\* Mutant: only the critical branch breaks; other errors skip and continue.
stopsBatch_criticalOnly(error) == error.isError /\ isCriticalError(error)

\* Both branches after the push end in "break": the batch stops on any error.
stopsBatch(error) == IF error.isError /\ isCriticalError(error) THEN TRUE ELSE TRUE

RECURSIVE filterFiles(_)
filterFiles(ps) ==
  IF ps = <<>> THEN <<>>
  ELSE (IF Head(ps).isFile THEN <<Head(ps).name>> ELSE <<>>) \o filterFiles(Tail(ps))

RECURSIVE filterInvalid(_)
filterInvalid(ps) ==
  IF ps = <<>> THEN <<>>
  ELSE (IF Head(ps).isFile THEN <<>> ELSE <<invalidResult>>) \o filterInvalid(Tail(ps))

countWhere(list, flag) == Cardinality({i \in 1..Len(list) : list[i].success = flag})

\* Mutant: totalProcessed counts the successful results only.
okResponse_totalIsSuccesses(list) ==
  [status |-> 200, results |-> list,
   summary |-> [totalProcessed |-> countWhere(list, TRUE),
                successCount |-> countWhere(list, TRUE),
                failureCount |-> countWhere(list, FALSE)],
   error |-> <<>>]

\* route.ts 269-289
okResponse(list) ==
  [status |-> 200, results |-> list,
   summary |-> [totalProcessed |-> Len(list),
                successCount |-> countWhere(list, TRUE),
                failureCount |-> countWhere(list, FALSE)],
   error |-> <<>>]
errorResponse(code, msg) ==
  [status |-> code, results |-> <<>>,
   summary |-> [totalProcessed |-> 0, successCount |-> 0, failureCount |-> 0],
   error |-> msg]
NoResponse == errorResponse(0, <<>>)

\* ------------------------------------------------------------ POST /api/ocr
Parts == [isFile : {TRUE}, name : FileNames] \cup {[isFile |-> FALSE, name |-> <<"text">>]}
PartLists == UNION {[1..n -> Parts] : n \in 0..MaxFiles}

InitOcr ==
  /\ tmpdir \in {{ForeignFile}, {OrphanFile, ForeignFile}}
  /\ nextUuid = FirstUuid
  /\ pc = [r \in Reqs |-> IF r = 1 THEN "start" ELSE "idle"]
  /\ contentTypeOk \in [Reqs -> BOOLEAN]
  /\ contentTypeOk[2] = TRUE
  /\ parts \in [Reqs -> PartLists]
  /\ parts[2] = <<>>
  /\ ~contentTypeOk[1] => parts[1] = <<>>
  /\ validFiles = [r \in Reqs |-> <<>>]
  /\ invalidFiles = [r \in Reqs |-> <<>>]
  /\ idx = [r \in Reqs |-> 1]
  /\ tempFilePath = [r \in Reqs |-> NoFile]
  /\ pending = [r \in Reqs |-> [ok |-> TRUE, text |-> "", error |-> NoError]]
  /\ results = [r \in Reqs |-> <<>>]
  /\ tempFilePaths = [r \in Reqs |-> <<>>]
  /\ leftoverFiles = [r \in Reqs |-> <<>>]
  /\ sweepPos = [r \in Reqs |-> 1]
  /\ deletedCount = [r \in Reqs |-> 0]
  /\ caught = [r \in Reqs |-> NoError]
  /\ response = [r \in Reqs |-> NoResponse]
  /\ trace = [r \in Reqs |-> <<>>]
  /\ faults = 0

log(r, e) == trace' = [trace EXCEPT ![r] = Append(@, e)]

\* The outcomes a file-system call may have, and the fault count after it.
MayFail == IF faults < MaxFaults THEN BOOLEAN ELSE {TRUE}
fault(ok) == faults' = IF ok THEN faults ELSE faults + 1

\* Mutant: the "no files" check is missing; an empty form goes on to
\* processImagesSequentially.
PostStart_noFilesCheck(r) ==
  /\ pc[r] = "start"
  /\ IF ~contentTypeOk[r]
       THEN /\ response' = [response EXCEPT ![r] =
                 errorResponse(400, <<"Request must use multipart/form-data">>)]
            /\ pc' = [pc EXCEPT ![r] = "done"]
            /\ UNCHANGED <<validFiles, invalidFiles>>
     ELSE /\ validFiles' = [validFiles EXCEPT ![r] = filterFiles(parts[r])]
          /\ invalidFiles' = [invalidFiles EXCEPT ![r] = filterInvalid(parts[r])]
          /\ pc' = [pc EXCEPT ![r] =
                      IF filterFiles(parts[r]) = <<>> THEN "postloop" ELSE "write"]
          /\ UNCHANGED response
  /\ UNCHANGED <<tmpdir, nextUuid, contentTypeOk, parts, idx, tempFilePath, pending,
                 results, tempFilePaths, leftoverFiles, sweepPos, deletedCount,
                 caught, trace, faults>>
  /\ UNCHANGED exceptOcr

\* route.ts 219-268: content-type check, files check, split valid / invalid,
\* enter processImagesSequentially.
PostStart(r) ==
  /\ pc[r] = "start"
  /\ IF ~contentTypeOk[r]
       THEN /\ response' = [response EXCEPT ![r] =
                 errorResponse(400, <<"Request must use multipart/form-data">>)]
            /\ pc' = [pc EXCEPT ![r] = "done"]
            /\ UNCHANGED <<validFiles, invalidFiles>>
     ELSE IF Len(parts[r]) = 0
       THEN /\ response' = [response EXCEPT ![r] =
                 errorResponse(400, <<"No image files were uploaded">>)]
            /\ pc' = [pc EXCEPT ![r] = "done"]
            /\ UNCHANGED <<validFiles, invalidFiles>>
     ELSE /\ validFiles' = [validFiles EXCEPT ![r] = filterFiles(parts[r])]
          /\ invalidFiles' = [invalidFiles EXCEPT ![r] = filterInvalid(parts[r])]
          /\ pc' = [pc EXCEPT ![r] =
                      IF filterFiles(parts[r]) = <<>> THEN "postloop" ELSE "write"]
          /\ UNCHANGED response
  /\ UNCHANGED <<tmpdir, nextUuid, contentTypeOk, parts, idx, tempFilePath, pending,
                 results, tempFilePaths, leftoverFiles, sweepPos, deletedCount,
                 caught, trace, faults>>
  /\ UNCHANGED exceptOcr

\* Mutant: a rejected writeFile leaves processImageWithGeminiApi without
\* running the finally block.
afterWriteFailure_skipsFinally == "record"

\* route.ts 120-134: the catch rethrows and control passes to the finally
\* block.
afterWriteFailure == "finally"

\* Mutant: the temp file is not cleaned up after the API call; the outcome
\* is recorded at once.
afterApiCall_skipsFinally == "record"

\* route.ts 119 / 133 -> 134: return or rethrow, then the finally block.
afterApiCall == "finally"

\* route.ts 82-88: name the temp file and write it. A rejected writeFile may
\* or may not have created the file.
WriteTemp(r) ==
  /\ pc[r] = "write"
  /\ LET file == validFiles[r][idx[r]]
         path == tempFileName(nextUuid, file)
     IN /\ nextUuid' = nextUuid + 1
        /\ tempFilePath' = [tempFilePath EXCEPT ![r] = path]
        /\ \E outcome \in {"written"} \cup
                           (IF FALSE \in MayFail THEN {"failedEmpty", "failedPartial"} ELSE {}) :
             /\ fault(outcome = "written")
             /\ tmpdir' = IF outcome = "failedEmpty" THEN tmpdir ELSE tmpdir \cup {path}
             /\ log(r, [ev |-> "write", i |-> idx[r], path |-> path, out |-> outcome])
             /\ IF outcome = "written"
                  THEN /\ pc' = [pc EXCEPT ![r] = "api"]
                       /\ UNCHANGED pending
                  ELSE /\ pc' = [pc EXCEPT ![r] = afterWriteFailure]
                       /\ pending' = [pending EXCEPT ![r] =
                            [ok |-> FALSE, text |-> "", error |-> rethrown(WriteError)]]
  /\ UNCHANGED <<contentTypeOk, parts, validFiles, invalidFiles, idx, results,
                 tempFilePaths, leftoverFiles, sweepPos, deletedCount, caught, response>>
  /\ UNCHANGED exceptOcr

\* route.ts 94-133: the Gemini call; a rejection is classified and rethrown.
ApiCall(r) ==
  /\ pc[r] = "api"
  /\ \/ \E resp \in ApiResponses :
          /\ pending' = [pending EXCEPT ![r] =
               [ok |-> TRUE, text |-> responseText(resp), error |-> NoError]]
          /\ log(r, [ev |-> "api", i |-> idx[r], path |-> tempFilePath[r],
                     out |-> IF resp.hasText /\ resp.text # "" THEN "text" ELSE "blank"])
     \/ \E err \in ApiErrors :
          /\ pending' = [pending EXCEPT ![r] =
               [ok |-> FALSE, text |-> "", error |-> rethrown(err)]]
          /\ log(r, [ev |-> "api", i |-> idx[r], path |-> tempFilePath[r],
                     out |-> determineErrorType(err).type])
  /\ pc' = [pc EXCEPT ![r] = afterApiCall]
  /\ UNCHANGED <<tmpdir, nextUuid, contentTypeOk, parts, validFiles, invalidFiles, idx,
                 tempFilePath, results, tempFilePaths, leftoverFiles, sweepPos,
                 deletedCount, caught, response, faults>>
  /\ UNCHANGED exceptOcr

\* route.ts 134-144: finally { cleanupTempFiles([tempFilePath]) }.
Finally(r) ==
  /\ pc[r] = "finally"
  /\ \E unlinkOk \in (IF tempFilePath[r] \in tmpdir THEN MayFail ELSE {TRUE}) :
       /\ fault(unlinkOk)
       /\ tmpdir' = cleanupTempFile(tmpdir, tempFilePath[r], unlinkOk)
       /\ log(r, [ev |-> "unlink", i |-> idx[r], path |-> tempFilePath[r],
                  out |-> unlinkResult(tmpdir, tempFilePath[r], unlinkOk)])
  /\ pc' = [pc EXCEPT ![r] = "record"]
  /\ UNCHANGED <<nextUuid, contentTypeOk, parts, validFiles, invalidFiles, idx,
                 tempFilePath, pending, results, tempFilePaths, leftoverFiles,
                 sweepPos, deletedCount, caught, response>>
  /\ UNCHANGED exceptOcr

\* route.ts 157-180: push the outcome; stop on an error, else next file.
Record(r) ==
  /\ pc[r] = "record"
  /\ LET file == validFiles[r][idx[r]]
         p == pending[r]
     IN IF p.ok
          THEN /\ results' = [results EXCEPT ![r] = pushResult(@, successResult(file, p.text))]
               /\ IF idx[r] < Len(validFiles[r])
                    THEN /\ idx' = [idx EXCEPT ![r] = @ + 1]
                         /\ pc' = [pc EXCEPT ![r] = "write"]
                    ELSE /\ pc' = [pc EXCEPT ![r] = "postloop"]
                         /\ UNCHANGED idx
          ELSE /\ results' = [results EXCEPT ![r] =
                    pushResult(@, failureResult(file, p.error.message))]
               /\ IF stopsBatch(p.error) \/ idx[r] >= Len(validFiles[r])
                    THEN /\ pc' = [pc EXCEPT ![r] = "postloop"]
                         /\ UNCHANGED idx
                    ELSE /\ idx' = [idx EXCEPT ![r] = @ + 1]
                         /\ pc' = [pc EXCEPT ![r] = "write"]
  /\ log(r, [ev |-> "push", i |-> idx[r], path |-> tempFilePath[r], out |-> "-"])
  /\ UNCHANGED <<tmpdir, nextUuid, contentTypeOk, parts, validFiles, invalidFiles,
                 tempFilePath, pending, tempFilePaths, leftoverFiles, sweepPos,
                 deletedCount, caught, response, faults>>
  /\ UNCHANGED exceptOcr

\* What a rejected cleanupLeftoverTempFiles() at route.ts 188 / 199 leads to:
\* in the try body the outer catch takes the error and runs the cleanup once
\* more (pc back to "postloop"); inside the catch it is logged and dropped.
CleanupThrew(r) ==
  IF caught[r] = NoError
    THEN /\ caught' = [caught EXCEPT ![r] =
                [isError |-> TRUE, message |-> <<"EACCES: scandir">>]]
         /\ pc' = [pc EXCEPT ![r] = "postloop"]
    ELSE /\ pc' = [pc EXCEPT ![r] = "respond"]
         /\ UNCHANGED caught

\* route.ts 183-188 (and 199): verifyTempFilesCleanup(tempFilePaths), then
\* cleanupLeftoverTempFiles up to its first scan (server 123-128).
PostLoop(r) ==
  /\ pc[r] = "postloop"
  /\ \E readdirOk \in MayFail :
       LET verificationResult == verifyTempFilesCleanup(tmpdir, tempFilePaths[r])
           scan == scanForLeftoverTempFiles(tmpdir, readdirOk)
       IN /\ fault(readdirOk)
          /\ log(r, [ev |-> "scan", i |-> 1, path |-> NoFile,
                     out |-> IF readdirOk THEN "listed" ELSE "failed"])
          /\ IF scan.threw
               THEN /\ CleanupThrew(r)
                    /\ UNCHANGED <<leftoverFiles, sweepPos, deletedCount>>
             ELSE IF Len(scan.files) = 0
               THEN /\ deletedCount' = [deletedCount EXCEPT ![r] = 0]
                    /\ leftoverFiles' = [leftoverFiles EXCEPT ![r] = scan.files]
                    /\ pc' = [pc EXCEPT ![r] = "respond"]
                    /\ UNCHANGED <<sweepPos, caught>>
             ELSE /\ leftoverFiles' = [leftoverFiles EXCEPT ![r] = scan.files]
                  /\ sweepPos' = [sweepPos EXCEPT ![r] = 1]
                  /\ pc' = [pc EXCEPT ![r] = "sweep"]
                  /\ UNCHANGED <<deletedCount, caught>>
  /\ UNCHANGED <<tmpdir, nextUuid, contentTypeOk, parts, validFiles, invalidFiles, idx,
                 tempFilePath, pending, results, tempFilePaths, response>>
  /\ UNCHANGED exceptOcr

\* server 130 -> 59-75: cleanupTempFiles(leftoverFiles), one path per step.
Sweep(r) ==
  /\ pc[r] = "sweep"
  /\ LET path == leftoverFiles[r][sweepPos[r]]
     IN \E unlinkOk \in (IF path \in tmpdir THEN MayFail ELSE {TRUE}) :
          /\ fault(unlinkOk)
          /\ tmpdir' = cleanupTempFile(tmpdir, path, unlinkOk)
          /\ log(r, [ev |-> "sweep", i |-> sweepPos[r], path |-> path,
                     out |-> unlinkResult(tmpdir, path, unlinkOk)])
  /\ IF sweepPos[r] < Len(leftoverFiles[r])
       THEN /\ sweepPos' = [sweepPos EXCEPT ![r] = @ + 1]
            /\ UNCHANGED pc
       ELSE /\ pc' = [pc EXCEPT ![r] = "rescan"]
            /\ UNCHANGED sweepPos
  /\ UNCHANGED <<nextUuid, contentTypeOk, parts, validFiles, invalidFiles, idx,
                 tempFilePath, pending, results, tempFilePaths, leftoverFiles,
                 deletedCount, caught, response>>
  /\ UNCHANGED exceptOcr

\* server 132-141: second scan, deletedCount = before - after.
Rescan(r) ==
  /\ pc[r] = "rescan"
  /\ \E readdirOk \in MayFail :
       LET scan == scanForLeftoverTempFiles(tmpdir, readdirOk)
       IN /\ fault(readdirOk)
          /\ log(r, [ev |-> "rescan", i |-> 1, path |-> NoFile,
                     out |-> IF readdirOk THEN "listed" ELSE "failed"])
          /\ IF scan.threw
               THEN /\ CleanupThrew(r)
                    /\ UNCHANGED deletedCount
               ELSE /\ deletedCount' = [deletedCount EXCEPT ![r] =
                         Len(leftoverFiles[r]) - Len(scan.files)]
                    /\ pc' = [pc EXCEPT ![r] = "respond"]
                    /\ UNCHANGED caught
  /\ UNCHANGED <<tmpdir, nextUuid, contentTypeOk, parts, validFiles, invalidFiles, idx,
                 tempFilePath, pending, results, tempFilePaths, leftoverFiles,
                 sweepPos, response>>
  /\ UNCHANGED exceptOcr

\* route.ts 190 / 206 and 268-305: processImagesSequentially returns or
\* rethrows; POST answers 200 with results and summary, or 500.
Respond(r) ==
  /\ pc[r] = "respond"
  /\ response' = [response EXCEPT ![r] =
       IF caught[r] = NoError
         THEN okResponse(invalidFiles[r] \o results[r])
         ELSE errorResponse(500, caught[r].message)]
  /\ pc' = [pc EXCEPT ![r] = "done"]
  /\ UNCHANGED <<tmpdir, nextUuid, contentTypeOk, parts, validFiles, invalidFiles, idx,
                 tempFilePath, pending, results, tempFilePaths, leftoverFiles,
                 sweepPos, deletedCount, caught, trace, faults>>
  /\ UNCHANGED exceptOcr

NextOcr ==
  \E r \in Reqs :
    \/ PostStart(r)
    \/ WriteTemp(r)
    \/ ApiCall(r)
    \/ Finally(r)
    \/ Record(r)
    \/ PostLoop(r)
    \/ Sweep(r)
    \/ Rescan(r)
    \/ Respond(r)

\* ------------------------------------------------------- PDF: data and helpers
\* An image URL: '' is EmptyUrl; startsWith('data:') reads the scheme,
\* includes('data:image/png') the scheme and the mime type.
EmptyUrl == [scheme |-> "", mime |-> "", payload |-> ""]
PngDataUrl == [scheme |-> "data:", mime |-> "image/png", payload |-> ";base64,iVBOR"]
BlobUrl == [scheme |-> "blob:", mime |-> "", payload |-> "http://localhost/1f"]
BlankUrl == [scheme |-> " ", mime |-> "", payload |-> ""]
Urls == {EmptyUrl, PngDataUrl, BlobUrl, BlankUrl}

PdfNames == {<<"a.png">>, <<"b.png">>, <<"">>}

\* The entries of an ocrResults array: fileName, success, text (absent or a
\* string), imageUrl.
OcrEntries ==
  {[fileName |-> n, success |-> o.success, hasText |-> o.hasText, text |-> o.text,
    imageUrl |-> u] :
     n \in PdfNames, u \in Urls,
     o \in {[success |-> TRUE, hasText |-> TRUE, text |-> "hello"],
            [success |-> TRUE, hasText |-> TRUE, text |-> ""],
            [success |-> FALSE, hasText |-> FALSE, text |-> ""]}}
OcrEntryLists == UNION {[1..n -> OcrEntries] : n \in 0..MaxResults}

\* JavaScript truthiness of the fields the filters read.
truthyText(res) == res.hasText /\ res.text # ""
truthyName(name) == name # <<>> /\ name # <<"">>
nonEmptyUrl(url) == url # EmptyUrl
\* url.trim() !== ''
trimmedNonEmpty(url) ==
  ~(url.scheme \in {"", " "} /\ url.mime \in {"", " "} /\ url.payload \in {"", " "})

\* Array.prototype.filter, as the indices kept, in increasing order; flags[i]
\* is the callback's verdict on element i.
RECURSIVE keptFrom(_, _)
keptFrom(flags, i) ==
  IF i > Len(flags) THEN <<>>
  ELSE (IF flags[i] THEN <<i>> ELSE <<>>) \o keptFrom(flags, i + 1)

\* page.tsx 388-390: result.success && result.text
clientKeeps(res) == res.success /\ truthyText(res)
\* Mutant: the filter looks at success only.
routeKeeps_successOnly(res) == res.success

\* generate/route.ts 45-47: result.success && result.text && result.fileName
routeKeeps(res) == res.success /\ truthyText(res) /\ truthyName(res.fileName)

successfulIndices(list) == keptFrom([i \in 1..Len(list) |-> routeKeeps(list[i])], 1)
clientIndices(list) == keptFrom([i \in 1..Len(list) |-> clientKeeps(list[i])], 1)

\* Mutant: the image URL is forwarded without the data: check.
toPair_unchecked(res) ==
  [imageDataUrl |-> res.imageUrl,
   extractedText |-> IF truthyText(res) THEN res.text ELSE "",
   filename |-> res.fileName]

\* generate/route.ts 64-89: the pair made from one result.
toPair(res) ==
  [imageDataUrl |-> IF nonEmptyUrl(res.imageUrl) /\ res.imageUrl.scheme = "data:"
                      THEN res.imageUrl ELSE EmptyUrl,
   extractedText |-> IF truthyText(res) THEN res.text ELSE "",
   filename |-> res.fileName]

\* A caller of the exported function passes its fields through unchanged.
asPair(res) ==
  [imageDataUrl |-> res.imageUrl,
   extractedText |-> IF res.hasText THEN res.text ELSE "",
   filename |-> res.fileName]

\* jsPDF document: new jsPDF() starts with one empty page; addPage appends an
\* empty page and makes it current; drawing goes to the current (last) page.
BlankPage == [kind |-> "blank", image |-> "none", format |-> "none",
              title |-> <<>>, text |-> "", lines |-> <<>>]
createPdf == <<BlankPage>>
addPage(pages) == Append(pages, BlankPage)
drawOnCurrent(pages, page) == [pages EXCEPT ![Len(pages)] = page]

\* Mutant: a page break before every item, the first included.
needsPageBreak_always(index) == index >= 0

\* jspdf.ts 181-183: a page break for all but the first item.
needsPageBreak(index) == index > 0

\* jspdf.ts 195-200
imageFormat(url) ==
  IF url.scheme = "data:" /\ url.mime = "image/png" THEN "PNG" ELSE "JPEG"

\* What doc.addImage may throw, and what doc.output may throw.
AddImageErrors == {<<"Invalid ", "image", " data">>}
OutputErrors == {<<"Invalid string length">>}

\* jspdf.ts 222
imageErrorMessage(filename, cause) ==
  <<"Failed to add image ">> \o filename \o <<": ">> \o cause

\* jspdf.ts 188-258: what is drawn for one pair. embed is "ok" or the message
\* doc.addImage threw.
contentPage(pair, embedOk) ==
  [kind |-> "content",
   image |-> IF nonEmptyUrl(pair.imageDataUrl) /\ trimmedNonEmpty(pair.imageDataUrl)
               THEN (IF embedOk THEN "embedded" ELSE "[ Image could not be displayed ]")
               ELSE "[ No image data available ]",
   format |-> IF nonEmptyUrl(pair.imageDataUrl) /\ trimmedNonEmpty(pair.imageDataUrl)
                THEN imageFormat(pair.imageDataUrl) ELSE "none",
   title |-> <<"Extracted Text from: ">> \o pair.filename,
   text |-> IF pair.extractedText # "" THEN pair.extractedText
            ELSE "No text could be extracted from this image.",
   lines |-> <<>>]

\* Mutant: only the first error is listed.
summaryPage_firstOnly(total, errors) ==
  [kind |-> "summary", image |-> "none", format |-> "none",
   title |-> <<"PDF Generation Report">>,
   text |-> "",
   lines |-> <<[n |-> 1, message |-> errors[1]]>>]

\* jspdf.ts 264-291
summaryPage(total, errors) ==
  [kind |-> "summary", image |-> "none", format |-> "none",
   title |-> <<"PDF Generation Report">>,
   text |-> "",
   lines |-> [i \in 1..Len(errors) |-> [n |-> i, message |-> errors[i]]]]

\* lib/pdf/error.ts 12-25
PdfErrorTypes == {"IMAGE_LOAD_ERROR", "IMAGE_FORMAT_ERROR", "PDF_GENERATION_ERROR",
                  "FILE_SYSTEM_ERROR", "UNKNOWN_ERROR"}

\* Mutant: no instanceof shortcut, a PdfGenerationError is classified again
\* by its message.
handlePdfError_reclassifies(error) ==
  LET message == IF error.message # <<>> THEN error.message
                 ELSE <<"Unknown PDF generation error">>
  IN IF includes(message, "addImage") \/ includes(message, "image")
       THEN (IF includes(message, "type") \/ includes(message, "format")
               THEN [isPdfError |-> TRUE, type |-> "IMAGE_FORMAT_ERROR",
                     message |-> <<"The ", "image", " ", "format",
                                   " is not supported for PDF generation">>]
               ELSE [isPdfError |-> TRUE, type |-> "IMAGE_LOAD_ERROR",
                     message |-> <<"Failed to load or process ", "image", " for PDF">>])
     ELSE IF includes(message, "ENOENT") \/ includes(message, "file")
       THEN [isPdfError |-> TRUE, type |-> "FILE_SYSTEM_ERROR",
             message |-> <<"File system error during PDF generation">>]
     ELSE [isPdfError |-> TRUE, type |-> "PDF_GENERATION_ERROR",
           message |-> <<"Error generating PDF document">>]

\* lib/pdf/error.ts 57-103
handlePdfError(error) ==
  IF error.isPdfError THEN error
  ELSE LET message == IF error.message # <<>> THEN error.message
                      ELSE <<"Unknown PDF generation error">>
       IN IF includes(message, "addImage") \/ includes(message, "image")
            THEN (IF includes(message, "type") \/ includes(message, "format")
                    THEN [isPdfError |-> TRUE, type |-> "IMAGE_FORMAT_ERROR",
                          message |-> <<"The ", "image", " ", "format",
                                        " is not supported for PDF generation">>]
                    ELSE [isPdfError |-> TRUE, type |-> "IMAGE_LOAD_ERROR",
                          message |-> <<"Failed to load or process ", "image", " for PDF">>])
          ELSE IF includes(message, "ENOENT") \/ includes(message, "file")
            THEN [isPdfError |-> TRUE, type |-> "FILE_SYSTEM_ERROR",
                  message |-> <<"File system error during PDF generation">>]
          ELSE [isPdfError |-> TRUE, type |-> "PDF_GENERATION_ERROR",
                message |-> <<"Error generating PDF document">>]

\* What the ocrResults field of a request body can be besides an array.
BodyKinds == {"missing", "null", "string", "object"}
\* The TypeError thrown by `ocrResults.length` / `ocrResults.map(...)`.
loggingError(kind) ==
  IF kind \in {"missing", "null"}
    THEN <<"Cannot read properties of undefined (reading 'length')">>
    ELSE <<"ocrResults.map is not a function">>

NoPdfError == [isPdfError |-> FALSE, type |-> "-", message |-> <<"-">>]
NoPdfResponse == [status |-> 0, pdf |-> <<>>, error |-> <<>>, errorType |-> "-"]

\* ------------------------------------------------------------ PDF: actions
\* The OCR route is not involved in the PDF flow.
OcrIdle ==
  /\ InitOcr
  /\ tmpdir = {ForeignFile}
  /\ contentTypeOk[1] = TRUE
  /\ parts[1] = <<>>

\* No toast shown. A toast is its level, the count it displays (0 when it
\* displays none) and its wording.
NoToast == [level |-> "-", count |-> 0, text |-> "-"]

\* The file selector before any selection.
SelIdle ==
  /\ fileList = <<>>
  /\ selPc = "idle"
  /\ selIndex = 0
  /\ selResult = <<>>
  /\ totalFiles = 0
  /\ extensionFailures = 0
  /\ magicNumberFailures = 0
  /\ verdicts = <<>>
  /\ selToast = NoToast
  /\ selected = <<>>

\* The page is not processing images.
NoResults == <<>>
CliIdle ==
  /\ imageFiles = <<>>
  /\ cliPc = "idle"
  /\ cliIdx = 1
  /\ cliStep = "read"
  /\ imageBase64Map = <<>>
  /\ apiData = <<>>
  /\ isProcessing = FALSE
  /\ ocrResults = NoResults
  /\ ocrError = "-"

\* cleanupTempFiles is not being exercised on its own.
CuIdle ==
  /\ cuPc = "idle"
  /\ cuDir = {}
  /\ cuPaths = <<>>
  /\ cuPos = 1
  /\ cuCall = 1
  /\ cuLog = <<>>
  /\ successCount = 0
  /\ failureCount = 0
  /\ cuDirAfterFirst = {}

\* No error is being classified.
ClsIdle ==
  /\ clsPc = "idle"
  /\ clsError = NoError
  /\ clsDetails = [type |-> "-", message |-> <<>>]
  /\ clsThrown = NoError
  /\ clsCritical = FALSE

InitPdf ==
  /\ OcrIdle
  /\ SelIdle
  /\ ClsIdle
  /\ ppc = "start"
  /\ via = "-"
  /\ ocrState \in OcrEntryLists
  /\ body = <<>>
  /\ bodyKind = "array"
  /\ pairs = <<>>
  /\ pairSrc = <<>>
  /\ pageIndex = 0
  /\ doc = <<>>
  /\ imageErrors = <<>>
  /\ pdfThrown = NoPdfError
  /\ pdfResponse = NoPdfResponse
  /\ CuIdle
  /\ CliIdle

\* page.tsx 377-409, generatePdf: nothing to do without results; only the
\* results with success and a text are sent; none left is an error shown to
\* the user and no request is made.
ClientGeneratePdf ==
  /\ ppc = "start"
  /\ via' = "client"
  /\ LET kept == clientIndices(ocrState)
     IN IF Len(ocrState) = 0 \/ Len(kept) = 0
          THEN /\ ppc' = "done"
               /\ UNCHANGED body
          ELSE /\ body' = [i \in 1..Len(kept) |-> ocrState[kept[i]]]
               /\ ppc' = "post"
  /\ UNCHANGED <<ocrState, bodyKind, pairs, pairSrc, pageIndex, doc, imageErrors,
                 pdfThrown, pdfResponse>>
  /\ UNCHANGED exceptPdf

\* Any other HTTP client posting an ocrResults array to /api/pdf/generate.
DirectPost ==
  /\ ppc = "start"
  /\ via' = "route"
  /\ \E kind \in {"array"} \cup BodyKinds :
       /\ bodyKind' = kind
       /\ body' = IF kind = "array" THEN ocrState ELSE <<>>
  /\ ppc' = "post"
  /\ UNCHANGED <<ocrState, pairs, pairSrc, pageIndex, doc, imageErrors, pdfThrown,
                 pdfResponse>>
  /\ UNCHANGED exceptPdf

\* A caller of the exported createMultiPagePdf.
DirectCreate ==
  /\ ppc = "start"
  /\ via' = "function"
  /\ pairs' = [i \in 1..Len(ocrState) |-> asPair(ocrState[i])]
  /\ pairSrc' = [i \in 1..Len(ocrState) |-> i]
  /\ ppc' = "create"
  /\ UNCHANGED <<ocrState, body, bodyKind, pageIndex, doc, imageErrors, pdfThrown,
                 pdfResponse>>
  /\ UNCHANGED exceptPdf

\* generate/route.ts 24-32: the log statement reads ocrResults.length and
\* calls ocrResults.map before anything is validated; on a value that is
\* not an array this throws a TypeError, which the route's catch takes.
\* 36-97: 400 without results or without successful results, else build
\* the pairs and call createMultiPagePdf.
PostValidate ==
  /\ ppc = "post"
  /\ LET kept == successfulIndices(body)
     IN IF bodyKind # "array"
          THEN /\ pdfThrown' = handlePdfError([isPdfError |-> FALSE, type |-> "-",
                                               message |-> loggingError(bodyKind)])
               /\ ppc' = "respond"
               /\ UNCHANGED <<pairs, pairSrc, pdfResponse>>
        ELSE IF Len(body) = 0
          THEN /\ pdfResponse' = [NoPdfResponse EXCEPT !.status = 400,
                    !.error = <<"No OCR results provided for PDF generation">>]
               /\ ppc' = "done"
               /\ UNCHANGED <<pairs, pairSrc, pdfThrown>>
        ELSE IF Len(kept) = 0
          THEN /\ pdfResponse' = [NoPdfResponse EXCEPT !.status = 400,
                    !.error = <<"No successful OCR results found for PDF generation">>]
               /\ ppc' = "done"
               /\ UNCHANGED <<pairs, pairSrc, pdfThrown>>
        ELSE /\ pairs' = [i \in 1..Len(kept) |-> toPair(body[kept[i]])]
             /\ pairSrc' = kept
             /\ ppc' = "create"
             /\ UNCHANGED <<pdfResponse, pdfThrown>>
  /\ UNCHANGED <<via, ocrState, body, bodyKind, pageIndex, doc, imageErrors>>
  /\ UNCHANGED exceptPdf

\* jspdf.ts 146-177: refuse an empty list, else create the document.
CreateStart ==
  /\ ppc = "create"
  /\ IF Len(pairs) = 0
       THEN /\ pdfThrown' = [isPdfError |-> TRUE, type |-> "PDF_GENERATION_ERROR",
                             message |-> <<"No ", "image", "s provided for PDF generation">>]
            /\ ppc' = "respond"
            /\ UNCHANGED doc
       ELSE /\ doc' = createPdf
            /\ ppc' = "render"
            /\ UNCHANGED pdfThrown
  /\ UNCHANGED <<via, ocrState, body, bodyKind, pairs, pairSrc, pageIndex, imageErrors,
                 pdfResponse>>
  /\ UNCHANGED exceptPdf

\* jspdf.ts 179-261: one iteration of imageTextPairs.forEach.
RenderPage ==
  /\ ppc = "render"
  /\ LET pair == pairs[pageIndex + 1]
         hasImage == nonEmptyUrl(pair.imageDataUrl) /\ trimmedNonEmpty(pair.imageDataUrl)
         pages == IF needsPageBreak(pageIndex) THEN addPage(doc) ELSE doc
     IN \/ /\ doc' = drawOnCurrent(pages, contentPage(pair, TRUE))
           /\ UNCHANGED imageErrors
        \/ /\ hasImage
           /\ \E cause \in AddImageErrors :
                imageErrors' = Append(imageErrors, imageErrorMessage(pair.filename, cause))
           /\ doc' = drawOnCurrent(pages, contentPage(pair, FALSE))
  /\ pageIndex' = pageIndex + 1
  /\ ppc' = IF pageIndex + 1 < Len(pairs) THEN "render" ELSE "finish"
  /\ UNCHANGED <<via, ocrState, body, bodyKind, pairs, pairSrc, pdfThrown, pdfResponse>>
  /\ UNCHANGED exceptPdf

\* jspdf.ts 263-310: the summary page when an image failed, then doc.output;
\* whatever is thrown goes through handlePdfError.
Finish ==
  /\ ppc = "finish"
  /\ doc' = IF Len(imageErrors) > 0
              THEN drawOnCurrent(addPage(doc), summaryPage(Len(pairs), imageErrors))
              ELSE doc
  /\ \/ UNCHANGED pdfThrown
     \/ \E m \in OutputErrors :
          pdfThrown' = handlePdfError([isPdfError |-> FALSE, type |-> "-", message |-> m])
  /\ ppc' = "respond"
  /\ UNCHANGED <<via, ocrState, body, bodyKind, pairs, pairSrc, pageIndex, imageErrors,
                 pdfResponse>>
  /\ UNCHANGED exceptPdf

\* generate/route.ts 99-131 and 133-171: 200 with the PDF, or 500 with the
\* classified error. For a direct caller of the function: its result.
PdfRespond ==
  /\ ppc = "respond"
  /\ pdfResponse' =
       IF pdfThrown = NoPdfError
         THEN [NoPdfResponse EXCEPT !.status = 200, !.pdf = doc]
         ELSE [NoPdfResponse EXCEPT !.status = 500,
                 !.error = handlePdfError(pdfThrown).message,
                 !.errorType = handlePdfError(pdfThrown).type]
  /\ ppc' = "done"
  /\ UNCHANGED <<via, ocrState, body, bodyKind, pairs, pairSrc, pageIndex, doc,
                 imageErrors, pdfThrown>>
  /\ UNCHANGED exceptPdf

NextPdf ==
  \/ ClientGeneratePdf
  \/ DirectPost
  \/ DirectCreate
  \/ PostValidate
  \/ CreateStart
  \/ RenderPage
  \/ Finish
  \/ PdfRespond

\* --------------------------------------------------------- specifications
PdfIdle ==
  /\ ppc = "idle"
  /\ via = "-"
  /\ ocrState = <<>>
  /\ body = <<>>
  /\ bodyKind = "array"
  /\ pairs = <<>>
  /\ pairSrc = <<>>
  /\ pageIndex = 0
  /\ doc = <<>>
  /\ imageErrors = <<>>
  /\ pdfThrown = NoPdfError
  /\ pdfResponse = NoPdfResponse

Init ==
  /\ InitOcr
  /\ PdfIdle
  /\ SelIdle
  /\ ClsIdle
  /\ CuIdle
  /\ CliIdle
Next == NextOcr
Spec == Init /\ [][Next]_vars

\* The PDF flow on its own: caller's results -> request -> document.
SpecPdf == InitPdf /\ [][NextPdf]_vars

\* ================================================================ properties
\* Observations of a request's history.
eventsOf(r, kind) == SelectSeq(trace[r], LAMBDA e : e.ev = kind)
indicesOf(r, kind) == [j \in 1..Len(eventsOf(r, kind)) |-> eventsOf(r, kind)[j].i]
happened(r, kind, path, out) ==
  \E j \in 1..Len(trace[r]) :
    trace[r][j].ev = kind /\ trace[r][j].path = path /\ trace[r][j].out = out
afterLoop(r) == pc[r] \in {"postloop", "sweep", "rescan", "respond", "done"}
processed(r) == contentTypeOk[r] /\ Len(parts[r]) > 0

\* C1: processImagesSequentially attempts the files strictly in list order
\* (the temp-file writes and the API calls carry the indices 1, 2, ..., n), the
\* k-th outcome carries the k-th file's name, each attempted file has exactly
\* one outcome once the loop is left, and a file after the stopping point has
\* none.
C1_InOrderOneOutcomeEach ==
  \A r \in Reqs :
    LET n == Len(eventsOf(r, "write"))
    IN /\ indicesOf(r, "write") = [k \in 1..n |-> k]
       /\ \A j \in 1..Len(eventsOf(r, "api")) : indicesOf(r, "api")[j] \in 1..n
       /\ \A j \in 1..(Len(eventsOf(r, "api")) - 1) :
            indicesOf(r, "api")[j] < indicesOf(r, "api")[j + 1]
       /\ n <= Len(validFiles[r])
       /\ Len(results[r]) <= n
       /\ \A k \in 1..Len(results[r]) : results[r][k].fileName = validFiles[r][k]
       /\ afterLoop(r) => Len(results[r]) = n

\* C1 witness: a finished batch that stopped early with two different names
\* attempted and a third file never attempted.
C1_Witness ==
  /\ pc[1] = "done"
  /\ Len(validFiles[1]) = 3
  /\ Len(results[1]) = 2
  /\ validFiles[1][1] # validFiles[1][2]

\* C2: once an image's attempt failed (critical or not), its failure is the
\* last outcome and nothing is written or sent to the API for a later file;
\* [ok1.jpg, bad.jpg, third] with an API-key error on bad.jpg gives exactly
\* [success(ok1.jpg), failure(bad.jpg)].
C2_StopOnFirstError ==
  \A r \in Reqs :
    /\ \A k \in 1..Len(results[r]) :
         ~results[r][k].success =>
           /\ k = Len(results[r])
           /\ afterLoop(r)
           /\ \A j \in 1..Len(trace[r]) :
                trace[r][j].ev \in {"write", "api"} => trace[r][j].i <= k
    /\ ( /\ pc[r] = "done"
         /\ validFiles[r] = << <<"ok1.jpg">>, <<"bad.jpg">>, <<"dir", "third.jpg">> >>
         /\ \E j \in 1..Len(trace[r]) :
              trace[r][j].ev = "api" /\ trace[r][j].i = 1 /\ trace[r][j].out \in {"text", "blank"}
         /\ \E j \in 1..Len(trace[r]) :
              trace[r][j].ev = "api" /\ trace[r][j].i = 2 /\ trace[r][j].out = "API_KEY_INVALID" )
       => /\ Len(results[r]) = 2
          /\ results[r][1].success /\ results[r][1].fileName = <<"ok1.jpg">>
          /\ ~results[r][2].success /\ results[r][2].fileName = <<"bad.jpg">>
          /\ includes(results[r][2].error, "API_KEY_INVALID")

\* C2 witness: the scenario of the claim, finished.
C2_Witness ==
  /\ pc[1] = "done"
  /\ validFiles[1] = << <<"ok1.jpg">>, <<"bad.jpg">>, <<"dir", "third.jpg">> >>
  /\ Len(results[1]) = 2
  /\ results[1][1].success
  /\ ~results[1][2].success
  /\ includes(results[1][2].error, "API_KEY_INVALID")

\* Paths that a request's writeFile calls left on disk at some point.
writtenBy(r) ==
  {trace[r][j].path : j \in {k \in 1..Len(trace[r]) :
      trace[r][k].ev = "write" /\ trace[r][k].out # "failedEmpty"}}

C4_OrphanCleanupAlwaysRunsNeverFails ==
  \A r \in Reqs :
    /\ caught[r] = NoError
    /\ response[r].status # 500
    /\ (pc[r] \in {"respond", "done"} /\ processed(r)) =>
         /\ response[r].status \in {0, 200}
         /\ \E j \in 1..Len(trace[r]) :
              /\ trace[r][j].ev = "scan"
              /\ \A k \in 1..Len(trace[r]) :
                   trace[r][k].ev \in {"write", "api", "unlink", "push"} => k < j

\* C4 witness: a batch answered 200 although the orphan cleanup could not
\* list the temp directory.
C4_Witness ==
  /\ pc[1] = "done"
  /\ response[1].status = 200
  /\ Len(results[1]) > 0
  /\ happened(1, "scan", NoFile, "failed")

\* C5: in a 200 response every result has success = TRUE exactly when it has
\* a text, and has exactly one of text and error; an image whose API call
\* returned an empty or absent text is reported as success with text "".
C5_SuccessIffText ==
  \A r \in Reqs :
    /\ (pc[r] = "done" /\ response[r].status = 200) =>
         \A k \in 1..Len(response[r].results) :
           LET res == response[r].results[k]
           IN /\ res.success <=> ("text" \in DOMAIN res)
              /\ ("text" \in DOMAIN res) # ("error" \in DOMAIN res)
    /\ \A j \in 1..Len(trace[r]) :
         (trace[r][j].ev = "api" /\ trace[r][j].out = "blank"
            /\ Len(results[r]) >= trace[r][j].i) =>
           LET res == results[r][trace[r][j].i]
           IN /\ res.success
              /\ "text" \in DOMAIN res
              /\ res.text = ""
              /\ "error" \notin DOMAIN res

\* C5 witness: a 200 response holding an empty-text success, a failure and
\* an entry for a part that was not a file.
C5_Witness ==
  /\ pc[1] = "done"
  /\ response[1].status = 200
  /\ \E k \in 1..Len(response[1].results) :
       response[1].results[k].success /\ response[1].results[k].text = ""
  /\ \E k \in 1..Len(response[1].results) :
       ~response[1].results[k].success /\ response[1].results[k].fileName = <<"unknown">>
  /\ \E k \in 1..Len(response[1].results) :
       ~response[1].results[k].success /\ response[1].results[k].fileName # <<"unknown">>

\* ---------------------------------------------------------- PDF properties
requestMade == via = "route" \/ (via = "client" /\ Len(body) > 0)
composed == ppc \in {"finish", "respond", "done"} /\ Len(pairs) > 0
countSuccess(list) == Cardinality({i \in 1..Len(list) : list[i].success})
failedPages(pages) ==
  {i \in 1..Len(pages) : pages[i].image = "[ Image could not be displayed ]"}
contentPages(pages) == {i \in 1..Len(pages) : pages[i].kind = "content"}
\* The i-th smallest element of a set of numbers.
nth(S, i) == CHOOSE x \in S : Cardinality({y \in S : y <= x}) = i

\* C6 (as claimed): for the results the page holds and sends, the PDF that
\* comes back has one page per outcome with success = TRUE, plus one if an
\* image could not be embedded - the empty-text successes included.
C6_PageCountIsSuccessCount ==
  ( /\ ppc = "done"
    /\ via = "client"
    /\ pdfResponse.status = 200
    /\ \A i \in 1..Len(ocrState) : truthyName(ocrState[i].fileName) )
  => Len(pdfResponse.pdf) =
       countSuccess(ocrState) + (IF Len(imageErrors) > 0 THEN 1 ELSE 0)

\* C7: createMultiPagePdf with no pair throws a PdfGenerationError and no
\* document exists; with N >= 1 pairs every pair is composed whatever
\* addImage does, the document has N content pages, then one summary page
\* exactly when K > 0 images failed, and that page lists K lines
\* "Failed to add image {name}: {cause}" in the order of the failing pairs.
C7_PagesAndSummary ==
  /\ (ppc \in {"respond", "done"} /\ via = "function" /\ Len(pairs) = 0) =>
       /\ pdfThrown.isPdfError
       /\ pdfThrown.type = "PDF_GENERATION_ERROR"
       /\ doc = <<>>
  /\ (ppc \in {"respond", "done"} /\ Len(pairs) > 0) =>
       LET N == Len(pairs)
           F == failedPages(doc)
           K == Cardinality(F)
       IN /\ pageIndex = N
          /\ contentPages(doc) = 1..N
          /\ Len(doc) = N + (IF K > 0 THEN 1 ELSE 0)
          /\ K > 0 =>
               /\ doc[N + 1].kind = "summary"
               /\ Len(doc[N + 1].lines) = K
               /\ \A j \in 1..K :
                    \E cause \in AddImageErrors :
                      doc[N + 1].lines[j].message =
                        <<"Failed to add image ">> \o pairs[nth(F, j)].filename
                          \o <<": ">> \o cause
          /\ (ppc = "done" /\ pdfThrown = NoPdfError) => pdfResponse.pdf = doc

\* C7 witness: two pairs with different names, both images failing, composed.
C7_Witness ==
  /\ ppc = "done"
  /\ Len(pairs) = 2
  /\ pairs[1].filename # pairs[2].filename
  /\ Len(imageErrors) = 2
  /\ Len(doc) = 3

\* C8: content page i shows pair i's file name and text; a page break comes
\* before every pair but the first, so the document never has more pages than
\* pairs composed so far and no page stays empty; the route forwards the
\* successful results in their relative order.
C8_PageOrder ==
  /\ ppc \in {"render", "finish"} => Len(doc) = (IF pageIndex = 0 THEN 1 ELSE pageIndex)
  /\ \A i \in 1..pageIndex :
       /\ doc[i].kind = "content"
       /\ doc[i].title = <<"Extracted Text from: ">> \o pairs[i].filename
       /\ pairs[i].extractedText # "" => doc[i].text = pairs[i].extractedText
  /\ composed => \A i \in 1..Len(doc) : doc[i].kind # "blank"
  /\ (via \in {"client", "route"} /\ Len(pairs) > 0) =>
       /\ \A i \in 1..Len(pairs) :
            /\ pairSrc[i] \in 1..Len(body)
            /\ pairs[i].filename = body[pairSrc[i]].fileName
            /\ pairs[i].extractedText = body[pairSrc[i]].text
       /\ \A i \in 1..(Len(pairs) - 1) : pairSrc[i] < pairSrc[i + 1]

\* C8 witness: a two-page document made through the route from a request
\* whose first result was not forwarded.
C8_Witness ==
  /\ ppc = "done"
  /\ via = "route"
  /\ Len(body) = 2
  /\ Len(pairs) = 1
  /\ pairSrc = <<2>>
  /\ pdfResponse.status = 200

\* C9: /api/pdf/generate answers 400 and builds no document when ocrResults
\* is empty and when no entry has success = TRUE with a non-empty text and
\* a non-empty fileName.
C9_NoUsableResultIs400 ==
  ( /\ requestMade
    /\ bodyKind = "array"
    /\ ppc \notin {"start", "post"}
    /\ ~\E i \in 1..Len(body) :
         /\ body[i].success
         /\ body[i].hasText /\ body[i].text # ""
         /\ body[i].fileName \notin {<<>>, <<"">>} )
  => /\ ppc = "done"
     /\ pdfResponse.status = 400
     /\ pairs = <<>>
     /\ doc = <<>>
     /\ pdfResponse.pdf = <<>>

\* C9 witness: a non-empty request without a usable result, answered.
C9_Witness ==
  /\ ppc = "done"
  /\ via = "route"
  /\ Len(body) = 2
  /\ body[1].success /\ body[1].text = ""
  /\ body[2].success /\ body[2].fileName = <<"">>
  /\ pdfResponse.status = 400

\* A forwarded result whose imageUrl is non-empty and does not start with
\* "data:".
malformedUrl(i) ==
  /\ body[pairSrc[i]].imageUrl # EmptyUrl
  /\ body[pairSrc[i]].imageUrl.scheme # "data:"
outputFailed == pdfThrown # NoPdfError /\ ppc \in {"respond", "done"} /\ Len(pairs) > 0

\* C10: for a successful result whose imageUrl is non-empty but does not
\* start with "data:", the route hands an empty image to the assembler, its
\* page shows "[ No image data available ]", nothing is added to the image
\* error list for it (only data: images can fail), and the response is 200
\* unless doc.output itself fails.
C10_MalformedUrlIsPlaceholder ==
  (via \in {"client", "route"} /\ Len(pairs) > 0) =>
    /\ \A i \in 1..Len(pairs) :
         malformedUrl(i) =>
           /\ pairs[i].imageDataUrl = EmptyUrl
           /\ i <= pageIndex => doc[i].image = "[ No image data available ]"
    /\ Len(imageErrors) <=
         Cardinality({i \in 1..pageIndex : body[pairSrc[i]].imageUrl.scheme = "data:"})
    /\ (ppc = "done" /\ (\A i \in 1..Len(pairs) : malformedUrl(i))) =>
         /\ imageErrors = <<>>
         /\ pdfResponse.status \in {200, 500}
         /\ pdfResponse.status = 500 => outputFailed
         /\ pdfResponse.status = 200 =>
              /\ Len(pdfResponse.pdf) = Len(pairs)
              /\ \A p \in 1..Len(pdfResponse.pdf) : pdfResponse.pdf[p].kind = "content"

\* C10 witness: one result with a blob: URL, answered 200 with one page
\* that carries the placeholder.
C10_Witness ==
  /\ ppc = "done"
  /\ via = "route"
  /\ Len(body) = 1
  /\ body[1].imageUrl = BlobUrl
  /\ pdfResponse.status = 200
  /\ Len(pdfResponse.pdf) = 1
  /\ pdfResponse.pdf[1].image = "[ No image data available ]"

\* ------------------------------------------------------ error classification
\* Every raw failure the try block of processImageWithGeminiApi can catch.
RawErrors == ApiErrors \cup {WriteError}
\* s.includes(sub) for a text of several tokens: sub occurs as a run of s.
containsRun(s, sub) ==
  \E i \in 0..(Len(s) - Len(sub)) : SubSeq(s, i + 1, i + Len(sub)) = sub
\* The kind an OcrResult.error string starts with ("KIND : sentence").
kindOf(errorString) == errorString[1]
\* The results of a response that come from processImagesSequentially.
processedResults(r) ==
  SubSeq(response[r].results, Len(invalidFiles[r]) + 1, Len(response[r].results))

\* C11 (as claimed): the error string of a failed image in the /api/ocr
\* response is the one sentence of its kind - every other raw failure that
\* classifies to the same kind would give the identical string - and the raw
\* exception message is not part of it; likewise the error field of a 500
\* from /api/pdf/generate is the one sentence of its errorType.
C11_OneFixedSentencePerKind ==
  /\ \A r \in Reqs :
       \A k \in 1..Len(processedResults(r)) :
         LET res == processedResults(r)[k]
         IN ~res.success =>
              \A e \in RawErrors :
                determineErrorType(e).type = kindOf(res.error) =>
                  /\ res.error = rethrown(e).message
                  /\ e.isError => ~containsRun(res.error, e.message)
  /\ pdfResponse.status = 500 =>
       \A m \in OutputErrors :
         LET e == handlePdfError([isPdfError |-> FALSE, type |-> "-", message |-> m])
         IN e.type = pdfResponse.errorType =>
              /\ pdfResponse.error = e.message
              /\ ~containsRun(pdfResponse.error, m)

\* C12: a 200 response of /api/ocr reports totalProcessed = number of
\* results = successCount + failureCount, successCount being the number of
\* results with success = TRUE; the results are the non-file parts and the
\* attempted images, so an image never attempted after a stop is in none of
\* the three counts.
C12_SummaryCountsResults ==
  \A r \in Reqs :
    (pc[r] = "done" /\ response[r].status = 200) =>
      LET res == response[r].results
          s == response[r].summary
      IN /\ s.totalProcessed = Len(res)
         /\ s.totalProcessed = s.successCount + s.failureCount
         /\ s.successCount = Cardinality({k \in 1..Len(res) : res[k].success})
         /\ s.failureCount = Cardinality({k \in 1..Len(res) : ~res[k].success})
         /\ s.totalProcessed = Len(invalidFiles[r]) + Len(eventsOf(r, "write"))
         /\ s.totalProcessed <= Len(parts[r])

\* C12 witness: a 200 response for three files of which the third was never
\* attempted: two results counted, one success and one failure.
C12_Witness ==
  /\ pc[1] = "done"
  /\ response[1].status = 200
  /\ Len(validFiles[1]) = 3
  /\ response[1].summary =
       [totalProcessed |-> 2, successCount |-> 1, failureCount |-> 1]

\* C13: a request whose content type is not multipart/form-data, or whose
\* form has no "files" part, is answered 400 at once: no temp file is
\* written, no OCR API call is made, nothing in the temp directory is touched
\* and no result is produced.
C13_BadRequestIs400 ==
  \A r \in Reqs :
    (pc[r] \notin {"idle", "start"} /\ (~contentTypeOk[r] \/ Len(parts[r]) = 0)) =>
      /\ pc[r] = "done"
      /\ response[r].status = 400
      /\ response[r].error =
           (IF ~contentTypeOk[r] THEN <<"Request must use multipart/form-data">>
            ELSE <<"No image files were uploaded">>)
      /\ response[r].results = <<>>
      /\ trace[r] = <<>>
      /\ eventsOf(r, "write") = <<>> /\ eventsOf(r, "api") = <<>>
      /\ nextUuid = FirstUuid
      /\ results[r] = <<>>

\* C13 witness: a multipart request without files, answered 400, with the
\* orphan of an earlier request still in the temp directory.
C13_Witness ==
  /\ pc[1] = "done"
  /\ contentTypeOk[1]
  /\ parts[1] = <<>>
  /\ response[1].status = 400
  /\ OrphanFile \in tmpdir

\* ====================================================== the image validator
\* (components/FolderSelector handleFileSelect, lib/utils/shared)
MaxSelected == 2

\* A file name is a sequence of tokens, the extension (with its dot) last.
SelNames == {<<"a", ".jpg">>, <<"b", ".PNG">>, <<"c", ".jpg", ".txt">>,
             <<"d", ".heif">>}
\* file.type, the MIME type the browser declares.
SelTypes == {"image/jpeg", "text/plain"}

\* The first bytes of a file (at most 12 are read) and the number of bytes
\* after them.
JpegBytes == <<255, 216, 255, 224, 0, 16, 74, 70, 73, 70, 0, 1>>
CorruptJpegBytes == <<0, 216, 255, 224, 0, 16, 74, 70, 73, 70, 0, 1>>
ShortJpegBytes == <<255, 216>>
PngBytes == <<137, 80, 78, 71, 13, 10, 26, 10, 0, 0, 0, 13>>
WebpBytes == <<82, 73, 70, 70, 36, 0, 0, 0, 87, 69, 66, 80>>
WavBytes == <<82, 73, 70, 70, 36, 0, 0, 0, 87, 65, 86, 69>>
HeicBytes == <<0, 0, 0, 24, 102, 116, 121, 112, 104, 101, 105, 99>>
SelContents ==
  {[head |-> h, rest |-> 100] :
     h \in {JpegBytes, CorruptJpegBytes, PngBytes, WebpBytes, WavBytes, HeicBytes}}
  \cup {[head |-> ShortJpegBytes, rest |-> 0], [head |-> <<>>, rest |-> 0]}

SelFiles == [name : SelNames, type : SelTypes, content : SelContents]
SelFileLists == UNION {[1..n -> SelFiles] : n \in 0..MaxSelected}

\* file.size
size(file) == Len(file.content.head) + file.content.rest

\* String.prototype.toLowerCase on the tokens of a name.
lowerToken(t) ==
  CASE t = ".PNG" -> ".png"
    [] t = ".JPG" -> ".jpg"
    [] OTHER -> t
toLowerCase(name) == [i \in 1..Len(name) |-> lowerToken(name[i])]
endsWith(name, ext) == Len(name) > 0 /\ name[Len(name)] = ext

\* shared.ts 179-189
hasValidImageExtension(fileName) ==
  LET lowerName == toLowerCase(fileName)
  IN \/ endsWith(lowerName, ".jpg")
     \/ endsWith(lowerName, ".jpeg")
     \/ endsWith(lowerName, ".png")
     \/ endsWith(lowerName, ".webp")
     \/ endsWith(lowerName, ".heic")
     \/ endsWith(lowerName, ".heif")

\* headerView[i] of new Uint8Array(await file.slice(0, 12).arrayBuffer()):
\* undefined (here -1) past the end of a short file.
headerView(file, i) ==
  IF i < Len(file.content.head) /\ i < 12 THEN file.content.head[i + 1] ELSE -1

\* Mutant: the JPEG test looks at the second and third byte only.
analyzeMimeType_weakJpeg(file) ==
  \/ headerView(file, 1) = 216 /\ headerView(file, 2) = 255
  \/ headerView(file, 0) = 137 /\ headerView(file, 1) = 80

\* shared.ts 104-153 (arrayBuffer() rejecting is caught and gives false)
analyzeMimeType(file) ==
  LET b(i) == headerView(file, i)
  IN \/ b(0) = 255 /\ b(1) = 216 /\ b(2) = 255
     \/ /\ b(0) = 137 /\ b(1) = 80 /\ b(2) = 78 /\ b(3) = 71
        /\ b(4) = 13 /\ b(5) = 10 /\ b(6) = 26 /\ b(7) = 10
     \/ /\ b(0) = 82 /\ b(1) = 73 /\ b(2) = 70 /\ b(3) = 70
        /\ b(8) = 87 /\ b(9) = 69 /\ b(10) = 66 /\ b(11) = 80
     \/ /\ b(4) = 102 /\ b(5) = 116 /\ b(6) = 121 /\ b(7) = 112
        /\ \/ b(8) = 104 /\ b(9) = 101 /\ b(10) = 105 /\ b(11) = 99
           \/ b(8) = 104 /\ b(9) = 101 /\ b(10) = 105 /\ b(11) = 102
           \/ b(8) = 109 /\ b(9) = 105 /\ b(10) = 102 /\ b(11) = 49

\* a.file.name.localeCompare(b.file.name) < 0 for the names above: they
\* differ in their first letter.
Alphabet == <<"a", "b", "c", "d">>
letterRank(t) == CHOOSE i \in 1..Len(Alphabet) : Alphabet[i] = t
nameBefore(a, b) == letterRank(a[1]) < letterRank(b[1])

\* result.sort((a, b) => a.file.name.localeCompare(b.file.name)): stable.
RECURSIVE insertSorted(_, _)
insertSorted(sorted, f) ==
  IF sorted = <<>> THEN <<f>>
  ELSE IF nameBefore(f.name, Head(sorted).name) THEN <<f>> \o sorted
  ELSE <<Head(sorted)>> \o insertSorted(Tail(sorted), f)
RECURSIVE sortByName(_)
sortByName(list) ==
  IF list = <<>> THEN <<>>
  ELSE insertSorted(sortByName(SubSeq(list, 1, Len(list) - 1)), list[Len(list)])

InitSelect ==
  /\ OcrIdle
  /\ PdfIdle
  /\ ClsIdle
  /\ fileList \in SelFileLists
  /\ selPc = "start"
  /\ selIndex = 0
  /\ selResult = <<>>
  /\ totalFiles = 0
  /\ extensionFailures = 0
  /\ magicNumberFailures = 0
  /\ verdicts = <<>>
  /\ selToast = NoToast
  /\ selected = <<>>
  /\ CuIdle
  /\ CliIdle

\* part_004 232-234: nothing to do without files.
HandleFileSelect ==
  /\ selPc = "start"
  /\ selPc' = IF Len(fileList) = 0 THEN "done" ELSE "loop"
  /\ UNCHANGED <<fileList, selIndex, selResult, totalFiles, extensionFailures,
                 magicNumberFailures, verdicts, selToast, selected>>
  /\ UNCHANGED exceptSel

\* part_004 251-290: one iteration of processFilesWithErrorTracking's loop.
\* readOk: file.slice(0, 12).arrayBuffer() resolves; previewOk:
\* createOptimizedPreview resolves.
ValidateFile ==
  /\ selPc = "loop"
  /\ LET file == fileList[selIndex + 1]
     IN \E readOk \in BOOLEAN, previewOk \in BOOLEAN :
          LET verdict ==
                IF size(file) = 0 THEN "zero-byte"
                ELSE IF ~hasValidImageExtension(file.name) THEN "extension"
                ELSE IF ~(readOk /\ analyzeMimeType(file)) THEN "magic-number"
                ELSE IF ~previewOk THEN "preview"
                ELSE "accepted"
          IN /\ verdicts' = Append(verdicts, verdict)
             /\ totalFiles' = IF verdict = "zero-byte" THEN totalFiles ELSE totalFiles + 1
             /\ extensionFailures' =
                  IF verdict = "extension" THEN extensionFailures + 1 ELSE extensionFailures
             /\ magicNumberFailures' =
                  IF verdict = "magic-number" THEN magicNumberFailures + 1
                  ELSE magicNumberFailures
             /\ selResult' = IF verdict = "accepted" THEN Append(selResult, file)
                             ELSE selResult
  /\ selIndex' = selIndex + 1
  /\ selPc' = IF selIndex + 1 < Len(fileList) THEN "loop" ELSE "finish"
  /\ UNCHANGED <<fileList, selToast, selected>>
  /\ UNCHANGED exceptSel

\* part_004 292-325: sort by name, report, hand the accepted files on.
FinishSelect ==
  /\ selPc = "finish"
  /\ LET sortedImageFiles == sortByName(selResult)
     IN IF Len(sortedImageFiles) = 0
          THEN /\ selToast' =
                    (IF extensionFailures > 0
                       THEN [level |-> "error", count |-> extensionFailures,
                             text |-> " file(s) rejected: Unsupported image extension."]
                     ELSE IF magicNumberFailures > 0
                       THEN [level |-> "error", count |-> magicNumberFailures,
                             text |-> " file(s) rejected: Image may be corrupted."]
                     ELSE [level |-> "error", count |-> 0,
                           text |-> "No supported image files selected."])
               /\ UNCHANGED selected
          ELSE /\ selToast' =
                    (IF extensionFailures > 0 \/ magicNumberFailures > 0
                       THEN [level |-> "warning",
                             count |-> extensionFailures + magicNumberFailures,
                             text |-> " file(s) were skipped due to validation issues."]
                       ELSE NoToast)
               /\ selected' = sortedImageFiles
  /\ selPc' = "done"
  /\ UNCHANGED <<fileList, selIndex, selResult, totalFiles, extensionFailures,
                 magicNumberFailures, verdicts>>
  /\ UNCHANGED exceptSel

NextSelect ==
  \/ HandleFileSelect
  \/ ValidateFile
  \/ FinishSelect

\* The file selector on its own.
SpecSelect == InitSelect /\ [][NextSelect]_vars

\* The conditions of the validator, read off the file itself.
signatureOf(file) ==
  LET h == file.content.head
  IN IF Len(h) >= 3 /\ SubSeq(h, 1, 3) = <<255, 216, 255>> THEN "JPEG"
     ELSE IF Len(h) >= 8 /\ SubSeq(h, 1, 8) = <<137, 80, 78, 71, 13, 10, 26, 10>> THEN "PNG"
     ELSE IF Len(h) >= 12 /\ SubSeq(h, 1, 4) = <<82, 73, 70, 70>>
               /\ SubSeq(h, 9, 12) = <<87, 69, 66, 80>> THEN "WebP"
     ELSE IF Len(h) >= 12 /\ SubSeq(h, 5, 8) = <<102, 116, 121, 112>>
               /\ SubSeq(h, 9, 12) \in {<<104, 101, 105, 99>>, <<104, 101, 105, 102>>,
                                        <<109, 105, 102, 49>>} THEN "HEIC/HEIF"
     ELSE "none"
allowedExtension(name) ==
  Len(name) > 0 /\
    toLowerCase(name)[Len(name)] \in {".jpg", ".jpeg", ".png", ".webp", ".heic", ".heif"}

\* C14: a file reaches the accepted list (and onFolderSelect) only if it is
\* not empty, its lower-cased name ends with an allowed extension and its
\* first 12 bytes carry a JPEG, PNG, WebP or HEIC/HEIF signature; a file with
\* an allowed extension whose header matches none is skipped as
\* "magic-number" - whatever its declared MIME type.
C14_AcceptsOnlyValidImages ==
  /\ \A k \in 1..Len(selResult) :
       /\ size(selResult[k]) > 0
       /\ allowedExtension(selResult[k].name)
       /\ signatureOf(selResult[k]) # "none"
  /\ \A k \in 1..Len(selected) :
       \E j \in 1..Len(selResult) : selected[k] = selResult[j]
  /\ \A i \in 1..Len(verdicts) :
       LET file == fileList[i]
       IN /\ verdicts[i] = "accepted" =>
               \E k \in 1..Len(selResult) : selResult[k] = file
          /\ (size(file) = 0 \/ ~allowedExtension(file.name)
                \/ signatureOf(file) = "none") => verdicts[i] # "accepted"
          /\ (size(file) > 0 /\ allowedExtension(file.name)
                /\ signatureOf(file) = "none") => verdicts[i] = "magic-number"

\* C14 witness: a selection of a good PNG declared as text/plain and a
\* ".jpg" declared as image/jpeg whose header lacks FF D8 FF: the first is
\* handed on, the second is not.
C14_Witness ==
  /\ selPc = "done"
  /\ Len(fileList) = 2
  /\ fileList[1].content.head = CorruptJpegBytes
  /\ fileList[1].name = <<"a", ".jpg">>
  /\ fileList[1].type = "image/jpeg"
  /\ fileList[2].name = <<"b", ".PNG">>
  /\ fileList[2].type = "text/plain"
  /\ verdicts = <<"magic-number", "accepted">>
  /\ selected = <<fileList[2]>>

\* ================================================== two concurrent requests
\* Two POST /api/ocr invocations running at the same time in one server
\* process: their steps interleave at every await.
MaxConcFiles == 1
ConcPartLists ==
  UNION {[1..n -> [isFile : {TRUE}, name : FileNames]] : n \in 1..MaxConcFiles}

InitConc ==
  /\ tmpdir = {ForeignFile}
  /\ nextUuid = FirstUuid
  /\ pc = [r \in Reqs |-> "start"]
  /\ contentTypeOk = [r \in Reqs |-> TRUE]
  /\ parts \in [Reqs -> ConcPartLists]
  /\ validFiles = [r \in Reqs |-> <<>>]
  /\ invalidFiles = [r \in Reqs |-> <<>>]
  /\ idx = [r \in Reqs |-> 1]
  /\ tempFilePath = [r \in Reqs |-> NoFile]
  /\ pending = [r \in Reqs |-> [ok |-> TRUE, text |-> "", error |-> NoError]]
  /\ results = [r \in Reqs |-> <<>>]
  /\ tempFilePaths = [r \in Reqs |-> <<>>]
  /\ leftoverFiles = [r \in Reqs |-> <<>>]
  /\ sweepPos = [r \in Reqs |-> 1]
  /\ deletedCount = [r \in Reqs |-> 0]
  /\ caught = [r \in Reqs |-> NoError]
  /\ response = [r \in Reqs |-> NoResponse]
  /\ trace = [r \in Reqs |-> <<>>]
  /\ faults = 0
  /\ PdfIdle
  /\ SelIdle
  /\ ClsIdle
  /\ CuIdle
  /\ CliIdle

SpecConc == InitConc /\ [][NextOcr]_vars

\* The writeFile calls made so far, as (request, position in its trace).
writes ==
  UNION {{<<r, j>> : j \in {k \in 1..Len(trace[r]) : trace[r][k].ev = "write"}} :
           r \in Reqs}
inFlight(r) == pc[r] \in {"api", "finally"}

\* C15: no two writeFile calls - of the same or of different requests, in
\* any interleaving - go to the same temp path, also when the uploads have
\* the same name; two requests that hold a temp file at the same time hold
\* different paths.
C15_TempPathsNeverCollide ==
  /\ \A w1 \in writes : \A w2 \in writes :
       w1 # w2 => trace[w1[1]][w1[2]].path # trace[w2[1]][w2[2]].path
  /\ \A r1 \in Reqs : \A r2 \in Reqs :
       (r1 # r2 /\ inFlight(r1) /\ inFlight(r2)) => tempFilePath[r1] # tempFilePath[r2]

\* C15 witness: both requests uploaded "ok1.jpg", both have written their
\* temp file, both files are on disk and both API calls are outstanding.
C15_Witness ==
  /\ pc[1] = "api" /\ pc[2] = "api"
  /\ validFiles[1] = << <<"ok1.jpg">> >>
  /\ validFiles[2] = << <<"ok1.jpg">> >>
  /\ tempFilePath[1].base = tempFilePath[2].base
  /\ {tempFilePath[1], tempFilePath[2]} \subseteq tmpdir

\* C16: whatever createMultiPagePdf throws - for an empty list, or when
\* doc.output fails - is a PdfGenerationError with one of the five
\* PdfErrorType values, which handlePdfError returns unchanged; the request
\* is then answered 500 with that error's message and type and no PDF, and a
\* 500 is answered in no other case.
C16_DocumentFailureIs500 ==
  /\ (ppc \in {"respond", "done"} /\ via = "function" /\ pairs = <<>>) =>
       pdfThrown = [isPdfError |-> TRUE, type |-> "PDF_GENERATION_ERROR",
                    message |-> <<"No ", "image", "s provided for PDF generation">>]
  /\ pdfThrown # NoPdfError =>
       /\ pdfThrown.isPdfError
       /\ pdfThrown.type \in PdfErrorTypes
       /\ handlePdfError(pdfThrown) = pdfThrown
  /\ (ppc = "done" /\ pdfThrown # NoPdfError) =>
       /\ pdfResponse.status = 500
       /\ pdfResponse.errorType = pdfThrown.type
       /\ pdfResponse.errorType \in PdfErrorTypes
       /\ pdfResponse.error = pdfThrown.message
       /\ pdfResponse.error # <<>>
       /\ pdfResponse.pdf = <<>>
  /\ pdfResponse.status = 500 => pdfThrown # NoPdfError

\* C16 witness: a request with two usable results whose document could not
\* be serialized, answered 500 with a classified error.
C16_Witness ==
  /\ ppc = "done"
  /\ via = "route"
  /\ Len(pairs) = 2
  /\ pageIndex = 2
  /\ pdfResponse.status = 500
  /\ pdfResponse.errorType = "PDF_GENERATION_ERROR"
  /\ pdfResponse.error = <<"Error generating PDF document">>

\* Positions in a request's history of the events of one kind for image i.
positions(r, kind, i) ==
  {j \in 1..Len(trace[r]) : trace[r][j].ev = kind /\ trace[r][j].i = i}
allBefore(S, T) == \A s \in S : \A t \in T : s < t
imageEvent(e) == e.ev \in {"write", "api", "unlink", "push"}
leftImage(r, i) == idx[r] > i \/ afterLoop(r)

\* C17: for every image of a batch the steps happen at most once each and in
\* the order write, API call, delete attempt, push of the outcome: the API
\* is called only after a successful write, the delete attempt follows the
\* write and the API call, the outcome is pushed only after the delete
\* attempt, and once the loop has left the image its delete attempt and its
\* push have both happened - also when the write or the API call threw.
C17_PhasesInOrder ==
  \A r \in Reqs :
    \A i \in 1..Len(validFiles[r]) :
      LET W == positions(r, "write", i)
          A == positions(r, "api", i)
          U == positions(r, "unlink", i)
          P == positions(r, "push", i)
      IN /\ \A S \in {W, A, U, P} : Cardinality(S) <= 1
         /\ A # {} => /\ W # {} /\ allBefore(W, A)
                      /\ \A w \in W : trace[r][w].out = "written"
         /\ U # {} => /\ W # {} /\ allBefore(W, U) /\ allBefore(A, U)
                      /\ A = {} => \A w \in W : trace[r][w].out # "written"
         /\ P # {} => U # {} /\ allBefore(U, P)
         /\ (W # {} /\ leftImage(r, i)) => U # {} /\ P # {}
         /\ (pc[r] = "record" /\ idx[r] = i) => U # {} /\ P = {}
         /\ Cardinality(P) = (IF Len(results[r]) >= i THEN 1 ELSE 0)

\* C17 witness: a finished batch whose first image succeeded and whose second
\* image's write was rejected after creating the file: the file was deleted
\* and the failure recorded after that.
C17_Witness ==
  /\ pc[1] = "done"
  /\ Len(results[1]) = 2
  /\ results[1][1].success /\ ~results[1][2].success
  /\ \E w \in positions(1, "write", 2) :
       /\ trace[1][w].out = "failedPartial"
       /\ happened(1, "unlink", trace[1][w].path, "deleted")
  /\ positions(1, "api", 2) = {}
  /\ positions(1, "push", 2) # {}

\* C18: within a batch the image steps never overlap: the images' events
\* appear in the order of the images, and the write and the API call of
\* image i+1 come after the API call (if made) and the delete attempt of
\* image i; only the image the loop is at can have an API call outstanding.
C18_OneCallInFlight ==
  \A r \in Reqs :
    /\ \A j \in 1..Len(trace[r]) : \A k \in 1..Len(trace[r]) :
         (j < k /\ imageEvent(trace[r][j]) /\ imageEvent(trace[r][k])) =>
           trace[r][j].i <= trace[r][k].i
    /\ \A i \in 2..Len(validFiles[r]) :
         LET next == positions(r, "write", i) \cup positions(r, "api", i)
         IN next # {} =>
              /\ positions(r, "unlink", i - 1) # {}
              /\ allBefore(positions(r, "unlink", i - 1), next)
              /\ allBefore(positions(r, "api", i - 1), next)
              /\ positions(r, "push", i - 1) # {}
    /\ pc[r] = "api" =>
         /\ positions(r, "api", idx[r]) = {}
         /\ \A i \in 1..(idx[r] - 1) : positions(r, "unlink", i) # {}

\* C18 witness: the API call for the third image is outstanding; the first
\* two calls are over and the delete attempt of the second one failed.
C18_Witness ==
  /\ pc[1] = "api"
  /\ idx[1] = 3
  /\ positions(1, "api", 1) # {} /\ positions(1, "api", 2) # {}
  /\ \E u \in positions(1, "unlink", 2) : trace[1][u].out = "failed"

\* ================================================== classifying one error
\* What happens to one value caught in processImageWithGeminiApi: classified
\* (route.ts 124), rethrown (133), judged by the loop (164-172).
MaxTokens == 2
MessageTokens == {"API key", "quota", "rate limit", "format", "image",
                  "timeout", "Rate Limit"}
RawMessages == UNION {[1..n -> MessageTokens] : n \in 0..MaxTokens}
\* Thrown values: Error objects with any message, and a value that is not an
\* Error.
ThrownValues == {[isError |-> TRUE, message |-> m] : m \in RawMessages}
                  \cup {[isError |-> FALSE, message |-> <<>>]}

InitClassify ==
  /\ OcrIdle
  /\ PdfIdle
  /\ SelIdle
  /\ clsPc = "caught"
  /\ clsError \in ThrownValues
  /\ clsDetails = [type |-> "-", message |-> <<>>]
  /\ clsThrown = NoError
  /\ clsCritical = FALSE
  /\ CuIdle
  /\ CliIdle

\* route.ts 124
Classify ==
  /\ clsPc = "caught"
  /\ clsDetails' = determineErrorType(clsError)
  /\ clsPc' = "classified"
  /\ UNCHANGED <<clsError, clsThrown, clsCritical>>
  /\ UNCHANGED exceptCls

\* route.ts 133
Rethrow ==
  /\ clsPc = "classified"
  /\ clsThrown' = rethrown(clsError)
  /\ clsPc' = "thrown"
  /\ UNCHANGED <<clsError, clsDetails, clsCritical>>
  /\ UNCHANGED exceptCls

\* route.ts 163-172
Judge ==
  /\ clsPc = "thrown"
  /\ clsCritical' = (clsThrown.isError /\ isCriticalError(clsThrown))
  /\ clsPc' = "judged"
  /\ UNCHANGED <<clsError, clsDetails, clsThrown>>
  /\ UNCHANGED exceptCls

NextClassify ==
  \/ Classify
  \/ Rethrow
  \/ Judge

SpecClassify == InitClassify /\ [][NextClassify]_vars

\* C19: for every caught value, isCriticalError on the error that
\* processImageWithGeminiApi throws is true exactly when determineErrorType
\* classified the caught value as API_KEY_INVALID or RATE_LIMIT_EXCEEDED.
C19_CriticalIffKeyOrRate ==
  clsPc = "judged" =>
    /\ clsThrown.isError
    /\ clsThrown.message = <<clsDetails.type, " : ">> \o clsDetails.message
    /\ clsCritical <=> (clsDetails.type \in {"API_KEY_INVALID", "RATE_LIMIT_EXCEEDED"})
    /\ clsCritical = isCriticalError(clsThrown)

\* C19 witness: a raw message with "quota" but neither "API key" nor
\* "rate limit", judged critical.
C19_Witness ==
  /\ clsPc = "judged"
  /\ clsError.isError
  /\ clsError.message = <<"quota", "timeout">>
  /\ clsDetails.type = "RATE_LIMIT_EXCEEDED"
  /\ clsCritical

\* The classifier as a table: the kinds in order, each with the phrases
\* that select it; the last row matches everything.
ClassifierTable ==
  << [phrases |-> {"API key"}, kind |-> "API_KEY_INVALID"],
     [phrases |-> {"quota", "rate limit"}, kind |-> "RATE_LIMIT_EXCEEDED"],
     [phrases |-> {"format", "image"}, kind |-> "INVALID_IMAGE_FORMAT"],
     [phrases |-> {}, kind |-> "UNKNOWN_ERROR"] >>
rowMatches(row, msg) ==
  row.phrases = {} \/ \E ph \in row.phrases : \E i \in 1..Len(msg) : msg[i] = ph
firstMatch(msg) ==
  LET hit == CHOOSE i \in 1..Len(ClassifierTable) :
               /\ rowMatches(ClassifierTable[i], msg)
               /\ \A j \in 1..(i - 1) : ~rowMatches(ClassifierTable[j], msg)
  IN ClassifierTable[hit].kind

\* C20: determineErrorType gives the kind of the first row of the table that
\* matches the raw message (case-sensitively), always one of the five
\* OcrErrorType values, and UNKNOWN_ERROR for a thrown value that is not an
\* Error.
C20_FirstMatchWins ==
  clsPc # "caught" /\ clsPc # "idle" =>
    /\ clsDetails.type \in OcrErrorTypes
    /\ clsError.isError => clsDetails.type = firstMatch(clsError.message)
    /\ ~clsError.isError => clsDetails.type = "UNKNOWN_ERROR"
    /\ clsDetails.type \in {"UNKNOWN_ERROR", "PROCESSING_ERROR"} <=>
         (~clsError.isError \/
            \A t \in {"API key", "quota", "rate limit", "format", "image"} :
              ~includes(clsError.message, t))

\* C20 witness: "image" then "API key" in one message: the earlier row wins.
C20_Witness ==
  /\ clsPc = "classified"
  /\ clsError.isError
  /\ clsError.message = <<"image", "API key">>
  /\ clsDetails.type = "API_KEY_INVALID"

\* ======================================== cleanupTempFiles, called twice
\* cleanupTempFiles(filePaths) run to its end and then run again with the
\* same filePaths, on any directory content and with any unlink rejected.
MaxPaths == 3
CuFiles == {[uuid |-> 1, base |-> <<"ok1.jpg">>], [uuid |-> 2, base |-> <<"bad.jpg">>],
            OrphanFile}
CuPathLists == UNION {[1..n -> CuFiles] : n \in 0..MaxPaths}

InitCleanup ==
  /\ OcrIdle
  /\ PdfIdle
  /\ SelIdle
  /\ ClsIdle
  /\ CliIdle
  /\ cuPc = "call"
  /\ cuDir \in SUBSET CuFiles
  /\ cuPaths \in CuPathLists
  /\ cuPos = 1
  /\ cuCall = 1
  /\ cuLog = <<>>
  /\ successCount = 0
  /\ failureCount = 0
  /\ cuDirAfterFirst = {}

\* part_002 53-57: entry, counters reset.
CleanupCall ==
  /\ cuPc = "call"
  /\ successCount' = 0
  /\ failureCount' = 0
  /\ cuPos' = 1
  /\ cuLog' = Append(cuLog, <<>>)
  /\ cuPc' = IF Len(cuPaths) = 0 THEN "return" ELSE "loop"
  /\ UNCHANGED <<cuDir, cuPaths, cuCall, cuDirAfterFirst>>
  /\ UNCHANGED exceptCu

\* part_002 59-75: one iteration; unlinkOk is whether fs.promises.unlink
\* resolves.
CleanupStep ==
  /\ cuPc = "loop"
  /\ LET path == cuPaths[cuPos]
     IN \E unlinkOk \in (IF path \in cuDir THEN BOOLEAN ELSE {TRUE}) :
          LET out == unlinkResult(cuDir, path, unlinkOk)
          IN /\ cuDir' = cleanupTempFile(cuDir, path, unlinkOk)
             /\ cuLog' = [cuLog EXCEPT ![cuCall] = Append(@, [path |-> path, out |-> out])]
             /\ successCount' = IF out = "deleted" THEN successCount + 1 ELSE successCount
             /\ failureCount' =
                  IF out = "failed" /\ catchesUnlinkError THEN failureCount + 1
                  ELSE failureCount
             /\ cuPc' = IF out = "failed" /\ ~catchesUnlinkError THEN "threw"
                        ELSE IF cuPos < Len(cuPaths) THEN "loop" ELSE "return"
  /\ cuPos' = cuPos + 1
  /\ UNCHANGED <<cuPaths, cuCall, cuDirAfterFirst>>
  /\ UNCHANGED exceptCu

\* part_002 77-82: the call returns; the caller calls again, once.
CleanupReturn ==
  /\ cuPc = "return"
  /\ IF cuCall = 1
       THEN /\ cuDirAfterFirst' = cuDir
            /\ cuCall' = 2
            /\ cuPc' = "call"
       ELSE /\ cuPc' = "done"
            /\ UNCHANGED <<cuDirAfterFirst, cuCall>>
  /\ UNCHANGED <<cuDir, cuPaths, cuPos, cuLog, successCount, failureCount>>
  /\ UNCHANGED exceptCu

NextCleanup ==
  \/ CleanupCall
  \/ CleanupStep
  \/ CleanupReturn

SpecCleanup == InitCleanup /\ [][NextCleanup]_vars

outcomesOf(call) == [k \in 1..Len(cuLog[call]) |-> cuLog[call][k].out]
countOut(call, out) == Cardinality({k \in 1..Len(cuLog[call]) : cuLog[call][k].out = out})
returned(call) == cuCall > call \/ (cuCall = call /\ cuPc \in {"return", "done"})

\* C21 (as claimed): cleanupTempFiles attempts every path, counts a missing
\* path neither as deleted nor as failed, never throws, and a second call
\* with the same paths changes nothing on disk.
C21_CleanupIdempotent ==
  /\ cuPc # "threw"
  /\ \A c \in 1..Len(cuLog) :
       returned(c) =>
         /\ Len(cuLog[c]) = Len(cuPaths)
         /\ \A k \in 1..Len(cuPaths) : cuLog[c][k].path = cuPaths[k]
  /\ cuPc \in {"return", "done"} =>
       /\ successCount = countOut(cuCall, "deleted")
       /\ failureCount = countOut(cuCall, "failed")
  /\ returned(2) => cuDir = cuDirAfterFirst

\* C21 (amended): as above, but the second call changes nothing on disk when
\* no unlink of the first call was rejected - then every path is missing for
\* it; in general the second call removes only files whose unlink was
\* rejected in the first call.
C21_CleanupIdempotentUnlessFailed ==
  /\ cuPc # "threw"
  /\ \A c \in 1..Len(cuLog) :
       returned(c) =>
         /\ Len(cuLog[c]) = Len(cuPaths)
         /\ \A k \in 1..Len(cuPaths) : cuLog[c][k].path = cuPaths[k]
  /\ cuPc \in {"return", "done"} =>
       /\ successCount = countOut(cuCall, "deleted")
       /\ failureCount = countOut(cuCall, "failed")
       /\ successCount + failureCount + countOut(cuCall, "missing") = Len(cuPaths)
  /\ returned(2) =>
       /\ countOut(1, "failed") = 0 =>
            /\ cuDir = cuDirAfterFirst
            /\ \A k \in 1..Len(cuLog[2]) : cuLog[2][k].out = "missing"
       /\ cuDir \subseteq cuDirAfterFirst
       /\ \A f \in cuDirAfterFirst \ cuDir :
            \E k \in 1..Len(cuLog[1]) : cuLog[1][k] = [path |-> f, out |-> "failed"]
  /\ returned(1) => \A f \in cuDirAfterFirst :
                      \A k \in 1..Len(cuLog[1]) : cuLog[1][k].path = f =>
                        \E j \in 1..Len(cuLog[1]) : cuLog[1][j] = [path |-> f, out |-> "failed"]

\* C21 witness: three paths - the first unlink rejected, the second path
\* missing, the third deleted - and a second call that found nothing to do
\* but the file that had failed.
C21_Witness ==
  /\ cuPc = "done"
  /\ Len(cuPaths) = 3
  /\ outcomesOf(1) = <<"failed", "missing", "deleted">>
  /\ outcomesOf(2) = <<"failed", "missing", "missing">>
  /\ cuDir = cuDirAfterFirst

countVerdict(v) == Cardinality({i \in 1..Len(verdicts) : verdicts[i] = v})

\* C22 (as claimed): every non-empty file examined is counted in exactly one
\* of accepted, extension failure and signature failure, and after the
\* selection the user is shown the extension failures and the signature
\* failures as two separate counts, whatever the mix of files.
C22_FailuresShownSeparately ==
  /\ Len(selResult) = countVerdict("accepted")
  /\ extensionFailures = countVerdict("extension")
  /\ magicNumberFailures = countVerdict("magic-number")
  /\ totalFiles = Len(selResult) + extensionFailures + magicNumberFailures
  /\ selPc = "done" =>
       /\ extensionFailures > 0 =>
            selToast = [level |-> "error", count |-> extensionFailures,
                        text |-> " file(s) rejected: Unsupported image extension."]
       /\ magicNumberFailures > 0 =>
            selToast = [level |-> "error", count |-> magicNumberFailures,
                        text |-> " file(s) rejected: Image may be corrupted."]

\* ------------------------------------------------ orphan sweep and requests
\* The temp file a request holds: written by it, its own cleanup not yet run.
holdsTempFile(r) == inFlight(r) /\ tempFilePath[r] \in writtenBy(r)
deletedBySweep(r) ==
  Cardinality({j \in 1..Len(trace[r]) :
                 trace[r][j].ev = "sweep" /\ trace[r][j].out = "deleted"})
listedAll(r) ==
  ~happened(r, "scan", NoFile, "failed") /\ ~happened(r, "rescan", NoFile, "failed")

\* C23 (as claimed): whatever the interleaving, the temp file of an in-flight
\* request - written, its own cleanup not yet run - is still on disk: no
\* other request's cleanupLeftoverTempFiles has deleted it.
C23_SweepSparesFilesInUse ==
  \A r \in Reqs : holdsTempFile(r) => tempFilePath[r] \in tmpdir

\* C24 (as claimed): when the loop is left, verifyTempFilesCleanup is given
\* every temp path the batch created, and it reports success only if none of
\* them is on disk.
C24_VerificationCoversBatch ==
  \A r \in Reqs :
    (pc[r] = "postloop" /\ caught[r] = NoError) =>
      /\ writtenBy(r) \subseteq {tempFilePaths[r][k] : k \in 1..Len(tempFilePaths[r])}
      /\ verifyTempFilesCleanup(tmpdir, tempFilePaths[r]) => writtenBy(r) \cap tmpdir = {}

\* C25: in the list processImagesSequentially builds and returns there is at
\* most one outcome with success = FALSE; it is the last element and all
\* elements before it have success = TRUE.
C25_AtMostOneFailureLast ==
  \A r \in Reqs :
    /\ Cardinality({k \in 1..Len(results[r]) : ~results[r][k].success}) <= 1
    /\ \A k \in 1..Len(results[r]) :
         ~results[r][k].success =>
           /\ k = Len(results[r])
           /\ \A j \in 1..(k - 1) : results[r][j].success

\* C25 witness: a returned list of three outcomes: two successes, then the
\* failure.
C25_Witness ==
  /\ pc[1] \in {"respond", "done"}
  /\ Len(results[1]) = 3
  /\ results[1][1].success /\ results[1][2].success /\ ~results[1][3].success

\* The parts of a request in submission order, each with its outcome: the
\* entry for a part that is not a File, the next outcome for a File, nothing
\* for a File that was not attempted.
RECURSIVE inSubmissionOrder(_, _)
inSubmissionOrder(ps, outcomes) ==
  IF ps = <<>> THEN <<>>
  ELSE IF ~Head(ps).isFile
    THEN <<invalidResult>> \o inSubmissionOrder(Tail(ps), outcomes)
  ELSE IF outcomes = <<>> THEN inSubmissionOrder(Tail(ps), outcomes)
  ELSE <<Head(outcomes)>> \o inSubmissionOrder(Tail(ps), Tail(outcomes))

\* C26 (as claimed): the results of a 200 response follow the order in which
\* the parts were submitted, the entries for parts that are not Files
\* included.
C26_ResultsInSubmissionOrder ==
  \A r \in Reqs :
    (pc[r] = "done" /\ response[r].status = 200) =>
      response[r].results = inSubmissionOrder(parts[r], results[r])

\* C30 (as claimed): when both scans could list the directory, the number
\* cleanupLeftoverTempFiles returns is not negative and is the number of
\* files its cleanupTempFiles call deleted - whatever other requests create
\* or delete between the two scans.
C30_DeletedCountIsExact ==
  \A r \in Reqs :
    (pc[r] \in {"respond", "done"} /\ listedAll(r) /\ caught[r] = NoError) =>
      /\ deletedCount[r] >= 0
      /\ deletedCount[r] = deletedBySweep(r)

\* C27 (as claimed): a request whose ocrResults field is missing, null or
\* not an array is answered 400, never 500.
C27_NonArrayBodyIs400 ==
  (via = "route" /\ bodyKind # "array" /\ ppc = "done") => pdfResponse.status = 400

\* ------------------------------------------------ the page's processImages
\* page.tsx 275-375. A file is its name (one path segment), the folder its
\* webkitRelativePath names ("" when the property is empty) and what the
\* browser can do with its bytes: "ok", "unreadable" (FileReader fails) or
\* "undecodable" (FileReader succeeds, Image cannot decode the data URL, as
\* for a .heic file in a browser without HEIC support; the selector accepts
\* .heic and .heif). The base64 string of a file is identified by the file's
\* index in imageFiles; 0 stands for the empty string.
MaxImages == 2
CliNames == {"x.jpg", "y.heic"}
CliFolders == {"", "A", "B"}
CliKinds == {"ok", "unreadable", "undecodable"}
CliFiles == [name : CliNames, folder : CliFolders, kind : CliKinds]
CliFileLists == UNION {[1..n -> CliFiles] : n \in 1..MaxImages}

\* file.name and file.webkitRelativePath as sequences of path segments.
fileKeyName(f) == <<f.name>>
webkitRelativePath(f) == IF f.folder = "" THEN <<>> ELSE <<f.folder, f.name>>
\* page.tsx 292: imageFile.file.webkitRelativePath || imageFile.file.name
fullKey(f) == IF webkitRelativePath(f) # <<>> THEN webkitRelativePath(f) ELSE fileKeyName(f)

\* Map.prototype.get / set; an absent key reads as 0 (undefined).
mapGet(m, k) == IF \E i \in 1..Len(m) : m[i].key = k
                  THEN (CHOOSE e \in {m[i] : i \in 1..Len(m)} : e.key = k).val
                  ELSE 0
mapSet(m, k, v) ==
  IF \E i \in 1..Len(m) : m[i].key = k
    THEN [i \in 1..Len(m) |-> IF m[i].key = k THEN [key |-> k, val |-> v] ELSE m[i]]
    ELSE Append(m, [key |-> k, val |-> v])

\* page.tsx 330: result.fileName.split(/[\/\\]/).pop() || result.fileName
fileNameOnly(fileName) ==
  IF Len(fileName) > 0 /\ fileName[Len(fileName)] # ""
    THEN <<fileName[Len(fileName)]>> ELSE fileName

\* page.tsx 324-340: the image looked up for one result.
imageUrlFor(m, result) ==
  LET direct == mapGet(m, result.fileName)
  IN IF direct # 0 THEN direct ELSE mapGet(m, fileNameOnly(result.fileName))

\* What /api/ocr can answer for the uploaded files: results for a non-empty
\* prefix of them (the batch stops at a critical error), each a success or a
\* failure, fileName being the uploaded file's name (route.ts 159, 166). src
\* records which upload the result is for (observation only).
ApiResults(files) ==
  UNION {{[k \in 1..n |-> [fileName |-> fileKeyName(files[k]), success |-> ok[k], src |-> k]]
             : ok \in [1..n -> BOOLEAN]} : n \in 1..Len(files)}

InitClient ==
  /\ OcrIdle
  /\ PdfIdle
  /\ SelIdle
  /\ ClsIdle
  /\ CuIdle
  /\ imageFiles \in CliFileLists
  /\ cliPc = "idle"
  /\ cliIdx = 1
  /\ cliStep = "read"
  /\ imageBase64Map = <<>>
  /\ apiData = <<>>
  /\ isProcessing = FALSE
  /\ ocrResults = NoResults
  /\ ocrError = "-"

\* page.tsx 276-286: the state resets and the empty map.
ProcessImages ==
  /\ cliPc = "idle"
  /\ isProcessing' = TRUE
  /\ ocrResults' = NoResults
  /\ ocrError' = "-"
  /\ imageBase64Map' = <<>>
  /\ cliIdx' = 1
  /\ cliStep' = "read"
  /\ cliPc' = "convert"
  /\ UNCHANGED <<imageFiles, apiData>>
  /\ UNCHANGED exceptCli

\* page.tsx 37-39, 74-75 (fileToBase64): the FileReader finishes. onload
\* hands the data URL to a new Image; onerror rejects the promise, which the
\* loop's catch (300-302) logs before going on to the next file.
ReaderSettles ==
  /\ cliPc = "convert"
  /\ cliIdx <= Len(imageFiles)
  /\ cliStep = "read"
  /\ IF imageFiles[cliIdx].kind = "unreadable"
       THEN /\ cliIdx' = cliIdx + 1
            /\ cliStep' = "read"
       ELSE /\ cliStep' = "decode"
            /\ UNCHANGED cliIdx
  /\ UNCHANGED <<imageFiles, cliPc, imageBase64Map, apiData, isProcessing, ocrResults,
                 ocrError>>
  /\ UNCHANGED exceptCli

\* page.tsx 41-71 (fileToBase64): img.onload resolves the promise with the
\* resized JPEG; 298-299 store it under both keys. The Image has no onerror
\* handler: when the data cannot be decoded no callback ever runs and the
\* promise stays pending, so this step is not enabled.
ImageLoads ==
  /\ cliPc = "convert"
  /\ cliIdx <= Len(imageFiles)
  /\ cliStep = "decode"
  /\ imageFiles[cliIdx].kind = "ok"
  /\ imageBase64Map' = mapSet(mapSet(imageBase64Map, fullKey(imageFiles[cliIdx]), cliIdx),
                              fileKeyName(imageFiles[cliIdx]), cliIdx)
  /\ cliIdx' = cliIdx + 1
  /\ cliStep' = "read"
  /\ UNCHANGED <<imageFiles, cliPc, apiData, isProcessing, ocrResults, ocrError>>
  /\ UNCHANGED exceptCli

\* page.tsx 308-323: the upload. fetch rejects, or the response is not ok
\* (both reach the catch), or it carries results.
Fetch ==
  /\ cliPc = "convert"
  /\ cliIdx > Len(imageFiles)
  /\ \/ /\ \E err \in {"Failed to fetch", "API Error"} : ocrError' = err
        /\ cliPc' = "catch"
        /\ UNCHANGED apiData
     \/ /\ \E rs \in ApiResults(imageFiles) : apiData' = rs
        /\ cliPc' = "attach"
        /\ UNCHANGED ocrError
  /\ UNCHANGED <<imageFiles, cliIdx, cliStep, imageBase64Map, isProcessing, ocrResults>>
  /\ UNCHANGED exceptCli

\* page.tsx 325-364: every result gets its imageUrl, the state is set and
\* the map cleared.
AttachImages ==
  /\ cliPc = "attach"
  /\ ocrResults' = [k \in 1..Len(apiData) |->
                      [fileName |-> apiData[k].fileName, success |-> apiData[k].success,
                       src |-> apiData[k].src,
                       imageUrl |-> imageUrlFor(imageBase64Map, apiData[k])]]
  /\ imageBase64Map' = <<>>
  /\ cliPc' = "finally"
  /\ UNCHANGED <<imageFiles, cliIdx, cliStep, apiData, isProcessing, ocrError>>
  /\ UNCHANGED exceptCli

\* page.tsx 366-372: the catch block.
CatchProcessing ==
  /\ cliPc = "catch"
  /\ ocrResults' = NoResults
  /\ cliPc' = "finally"
  /\ UNCHANGED <<imageFiles, cliIdx, cliStep, imageBase64Map, apiData, isProcessing,
                 ocrError>>
  /\ UNCHANGED exceptCli

\* page.tsx 373-375: the finally block.
FinallyProcessing ==
  /\ cliPc = "finally"
  /\ isProcessing' = FALSE
  /\ cliPc' = "done"
  /\ UNCHANGED <<imageFiles, cliIdx, cliStep, imageBase64Map, apiData, ocrResults, ocrError>>
  /\ UNCHANGED exceptCli

NextClient ==
  \/ ProcessImages
  \/ ReaderSettles
  \/ ImageLoads
  \/ Fetch
  \/ AttachImages
  \/ CatchProcessing
  \/ FinallyProcessing

SpecClient == InitClient /\ [][NextClient]_vars

\* Every callback and continuation that is ready is eventually run by the
\* browser's event loop.
SpecClientFair == InitClient /\ [][NextClient]_vars /\ WF_vars(NextClient)

\* C28 (as claimed): processImages, once started, always reaches its finally
\* block: isProcessing is eventually false again, also when the browser
\* cannot decode one of the images.
C28_ProcessImagesTerminates ==
  (cliPc = "convert") ~> (cliPc = "done" /\ ~isProcessing)

\* C29 (as claimed): the image attached to a successful result is the one
\* converted from the file that result is for, or none; never another
\* file's, also when two files of the list share a name.
C29_ImageBelongsToResult ==
  \A k \in 1..Len(ocrResults) :
    ocrResults[k].success => ocrResults[k].imageUrl \in {0, ocrResults[k].src}

====
